---------------------------- MODULE Spec2Model ----------------------------
(***************************************************************************)
(* Interior-design recolor app: the ImageCanvas component (history,        *)
(* surfaces, groups, image processing) and the recolor library.            *)
(*                                                                         *)
(* Numbers.  The source computes in IEEE doubles.  Here every real is a    *)
(* fixed-point integer in units of 1/Scale: linear light 1.0 is 1000, Lab  *)
(* L = 100 is 100000.  Transcendental functions (the sRGB transfer curve,  *)
(* ln) are tables of the source formula rounded to that grid.  A NaN, which *)
(* the source can produce by 0/0, is tracked explicitly where it can arise. *)
(* An ImageData is its data array: a tuple of 4 * NPix bytes (RGBA), the   *)
(* width and height being those of the canvas for every image.  A hex      *)
(* colour "#rrggbb" is the triple <<rr, gg, bb>> of its parsed bytes.       *)
(***************************************************************************)
EXTENDS Integers, Sequences, FiniteSets, TLC

Scale == 10 * 10 * 10
Eps == 1

Width == 2
Height == 2
NPix == Width * Height

Min(a, b) == IF a < b THEN a ELSE b
Max(a, b) == IF a > b THEN a ELSE b

\* Storing the real n/d (d > 0) into a Uint8ClampedArray: round half to even, clamp.
ToUint8Clamped(n, d) ==
  LET q == n \div d
      r == n % d
      rounded == IF 2 * r < d THEN q
                 ELSE IF 2 * r > d THEN q + 1
                 ELSE IF q % 2 = 0 THEN q ELSE q + 1
  IN Min(255, Max(0, rounded))

SrgbToLinearTable ==
  <<
    0, 0, 1, 1, 1, 2, 2, 2, 2, 3, 3, 3, 4, 4, 4, 5,
    5, 6, 6, 7, 7, 7, 8, 9, 9, 10, 10, 11, 12, 12, 13, 14,
    14, 15, 16, 17, 18, 19, 19, 20, 21, 22, 23, 24, 25, 26, 27, 28,
    30, 31, 32, 33, 34, 36, 37, 38, 40, 41, 42, 44, 45, 47, 48, 50,
    51, 53, 54, 56, 58, 60, 61, 63, 65, 67, 68, 70, 72, 74, 76, 78,
    80, 82, 84, 87, 89, 91, 93, 95, 98, 100, 102, 105, 107, 109, 112, 114,
    117, 120, 122, 125, 127, 130, 133, 136, 138, 141, 144, 147, 150, 153, 156, 159,
    162, 165, 168, 171, 175, 178, 181, 184, 188, 191, 195, 198, 202, 205, 209, 212,
    216, 220, 223, 227, 231, 235, 238, 242, 246, 250, 254, 258, 262, 266, 270, 275,
    279, 283, 287, 292, 296, 301, 305, 309, 314, 319, 323, 328, 332, 337, 342, 347,
    352, 356, 361, 366, 371, 376, 381, 386, 392, 397, 402, 407, 413, 418, 423, 429,
    434, 440, 445, 451, 456, 462, 468, 474, 479, 485, 491, 497, 503, 509, 515, 521,
    527, 533, 539, 546, 552, 558, 565, 571, 578, 584, 591, 597, 604, 610, 617, 624,
    631, 638, 644, 651, 658, 665, 672, 680, 687, 694, 701, 708, 716, 723, 730, 738,
    745, 753, 761, 768, 776, 784, 791, 799, 807, 815, 823, 831, 839, 847, 855, 863,
    871, 880, 888, 896, 905, 913, 922, 930, 939, 947, 956, 965, 973, 982, 991, 1000
  >>

LinearToSrgbTable ==
  <<
    0, 3, 7, 10, 13, 16, 18, 20, 22, 24, 25, 27, 29, 30, 31, 33, 34, 35, 36, 38,
    39, 40, 41, 42, 43, 44, 45, 46, 47, 48, 48, 49, 50, 51, 52, 53, 53, 54, 55, 56,
    56, 57, 58, 58, 59, 60, 61, 61, 62, 63, 63, 64, 64, 65, 66, 66, 67, 68, 68, 69,
    69, 70, 70, 71, 72, 72, 73, 73, 74, 74, 75, 75, 76, 76, 77, 77, 78, 78, 79, 79,
    80, 80, 81, 81, 82, 82, 83, 83, 84, 84, 85, 85, 86, 86, 86, 87, 87, 88, 88, 89,
    89, 89, 90, 90, 91, 91, 92, 92, 92, 93, 93, 94, 94, 94, 95, 95, 96, 96, 96, 97,
    97, 98, 98, 98, 99, 99, 99, 100, 100, 101, 101, 101, 102, 102, 102, 103, 103, 103, 104, 104,
    105, 105, 105, 106, 106, 106, 107, 107, 107, 108, 108, 108, 109, 109, 109, 110, 110, 110, 111, 111,
    111, 112, 112, 112, 113, 113, 113, 114, 114, 114, 115, 115, 115, 115, 116, 116, 116, 117, 117, 117,
    118, 118, 118, 119, 119, 119, 119, 120, 120, 120, 121, 121, 121, 122, 122, 122, 122, 123, 123, 123,
    124, 124, 124, 124, 125, 125, 125, 126, 126, 126, 126, 127, 127, 127, 127, 128, 128, 128, 129, 129,
    129, 129, 130, 130, 130, 130, 131, 131, 131, 132, 132, 132, 132, 133, 133, 133, 133, 134, 134, 134,
    134, 135, 135, 135, 135, 136, 136, 136, 136, 137, 137, 137, 137, 138, 138, 138, 138, 139, 139, 139,
    139, 140, 140, 140, 140, 141, 141, 141, 141, 142, 142, 142, 142, 143, 143, 143, 143, 144, 144, 144,
    144, 144, 145, 145, 145, 145, 146, 146, 146, 146, 147, 147, 147, 147, 148, 148, 148, 148, 148, 149,
    149, 149, 149, 150, 150, 150, 150, 150, 151, 151, 151, 151, 152, 152, 152, 152, 152, 153, 153, 153,
    153, 154, 154, 154, 154, 154, 155, 155, 155, 155, 155, 156, 156, 156, 156, 157, 157, 157, 157, 157,
    158, 158, 158, 158, 158, 159, 159, 159, 159, 159, 160, 160, 160, 160, 161, 161, 161, 161, 161, 162,
    162, 162, 162, 162, 163, 163, 163, 163, 163, 164, 164, 164, 164, 164, 165, 165, 165, 165, 165, 166,
    166, 166, 166, 166, 167, 167, 167, 167, 167, 168, 168, 168, 168, 168, 168, 169, 169, 169, 169, 169,
    170, 170, 170, 170, 170, 171, 171, 171, 171, 171, 172, 172, 172, 172, 172, 172, 173, 173, 173, 173,
    173, 174, 174, 174, 174, 174, 175, 175, 175, 175, 175, 175, 176, 176, 176, 176, 176, 177, 177, 177,
    177, 177, 177, 178, 178, 178, 178, 178, 179, 179, 179, 179, 179, 179, 180, 180, 180, 180, 180, 180,
    181, 181, 181, 181, 181, 182, 182, 182, 182, 182, 182, 183, 183, 183, 183, 183, 183, 184, 184, 184,
    184, 184, 184, 185, 185, 185, 185, 185, 185, 186, 186, 186, 186, 186, 187, 187, 187, 187, 187, 187,
    188, 188, 188, 188, 188, 188, 189, 189, 189, 189, 189, 189, 190, 190, 190, 190, 190, 190, 191, 191,
    191, 191, 191, 191, 191, 192, 192, 192, 192, 192, 192, 193, 193, 193, 193, 193, 193, 194, 194, 194,
    194, 194, 194, 195, 195, 195, 195, 195, 195, 196, 196, 196, 196, 196, 196, 196, 197, 197, 197, 197,
    197, 197, 198, 198, 198, 198, 198, 198, 199, 199, 199, 199, 199, 199, 199, 200, 200, 200, 200, 200,
    200, 201, 201, 201, 201, 201, 201, 201, 202, 202, 202, 202, 202, 202, 203, 203, 203, 203, 203, 203,
    203, 204, 204, 204, 204, 204, 204, 204, 205, 205, 205, 205, 205, 205, 206, 206, 206, 206, 206, 206,
    206, 207, 207, 207, 207, 207, 207, 207, 208, 208, 208, 208, 208, 208, 208, 209, 209, 209, 209, 209,
    209, 209, 210, 210, 210, 210, 210, 210, 211, 211, 211, 211, 211, 211, 211, 212, 212, 212, 212, 212,
    212, 212, 213, 213, 213, 213, 213, 213, 213, 214, 214, 214, 214, 214, 214, 214, 215, 215, 215, 215,
    215, 215, 215, 215, 216, 216, 216, 216, 216, 216, 216, 217, 217, 217, 217, 217, 217, 217, 218, 218,
    218, 218, 218, 218, 218, 219, 219, 219, 219, 219, 219, 219, 219, 220, 220, 220, 220, 220, 220, 220,
    221, 221, 221, 221, 221, 221, 221, 222, 222, 222, 222, 222, 222, 222, 222, 223, 223, 223, 223, 223,
    223, 223, 224, 224, 224, 224, 224, 224, 224, 224, 225, 225, 225, 225, 225, 225, 225, 226, 226, 226,
    226, 226, 226, 226, 226, 227, 227, 227, 227, 227, 227, 227, 228, 228, 228, 228, 228, 228, 228, 228,
    229, 229, 229, 229, 229, 229, 229, 229, 230, 230, 230, 230, 230, 230, 230, 230, 231, 231, 231, 231,
    231, 231, 231, 231, 232, 232, 232, 232, 232, 232, 232, 233, 233, 233, 233, 233, 233, 233, 233, 234,
    234, 234, 234, 234, 234, 234, 234, 235, 235, 235, 235, 235, 235, 235, 235, 236, 236, 236, 236, 236,
    236, 236, 236, 237, 237, 237, 237, 237, 237, 237, 237, 238, 238, 238, 238, 238, 238, 238, 238, 238,
    239, 239, 239, 239, 239, 239, 239, 239, 240, 240, 240, 240, 240, 240, 240, 240, 241, 241, 241, 241,
    241, 241, 241, 241, 242, 242, 242, 242, 242, 242, 242, 242, 242, 243, 243, 243, 243, 243, 243, 243,
    243, 244, 244, 244, 244, 244, 244, 244, 244, 245, 245, 245, 245, 245, 245, 245, 245, 245, 246, 246,
    246, 246, 246, 246, 246, 246, 247, 247, 247, 247, 247, 247, 247, 247, 247, 248, 248, 248, 248, 248,
    248, 248, 248, 249, 249, 249, 249, 249, 249, 249, 249, 249, 250, 250, 250, 250, 250, 250, 250, 250,
    250, 251, 251, 251, 251, 251, 251, 251, 251, 251, 252, 252, 252, 252, 252, 252, 252, 252, 253, 253,
    253, 253, 253, 253, 253, 253, 253, 254, 254, 254, 254, 254, 254, 254, 254, 254, 255, 255, 255, 255,
    255
  >>

LnTable ==
  <<
    -6908, -6215, -5809, -5521, -5298, -5116, -4962, -4828, -4711, -4605, -4510, -4423,
    -4343, -4269, -4200, -4135, -4075, -4017, -3963, -3912, -3863, -3817, -3772, -3730,
    -3689, -3650, -3612, -3576, -3540, -3507, -3474, -3442, -3411, -3381, -3352, -3324,
    -3297, -3270, -3244, -3219, -3194, -3170, -3147, -3124, -3101, -3079, -3058, -3037,
    -3016, -2996, -2976, -2957, -2937, -2919, -2900, -2882, -2865, -2847, -2830, -2813,
    -2797, -2781, -2765, -2749, -2733, -2718, -2703, -2688, -2674, -2659, -2645, -2631,
    -2617, -2604, -2590, -2577, -2564, -2551, -2538, -2526, -2513, -2501, -2489, -2477,
    -2465, -2453, -2442, -2430, -2419, -2408, -2397, -2386, -2375, -2364, -2354, -2343,
    -2333, -2323, -2313, -2303, -2293, -2283, -2273, -2263, -2254, -2244, -2235, -2226,
    -2216, -2207, -2198, -2189, -2180, -2172, -2163, -2154, -2146, -2137, -2129, -2120,
    -2112, -2104, -2096, -2087, -2079, -2071, -2064, -2056, -2048, -2040, -2033, -2025,
    -2017, -2010, -2002, -1995, -1988, -1981, -1973, -1966, -1959, -1952, -1945, -1938,
    -1931, -1924, -1917, -1911, -1904, -1897, -1890, -1884, -1877, -1871, -1864, -1858,
    -1852, -1845, -1839, -1833, -1826, -1820, -1814, -1808, -1802, -1796, -1790, -1784,
    -1778, -1772, -1766, -1760, -1754, -1749, -1743, -1737, -1732, -1726, -1720, -1715,
    -1709, -1704, -1698, -1693, -1687, -1682, -1677, -1671, -1666, -1661, -1655, -1650,
    -1645, -1640, -1635, -1630, -1625, -1619, -1614, -1609, -1604, -1599, -1595, -1590,
    -1585, -1580, -1575, -1570, -1565, -1561, -1556, -1551, -1546, -1542, -1537, -1532,
    -1528, -1523, -1519, -1514, -1510, -1505, -1501, -1496, -1492, -1487, -1483, -1478,
    -1474, -1470, -1465, -1461, -1457, -1452, -1448, -1444, -1440, -1435, -1431, -1427,
    -1423, -1419, -1415, -1411, -1406, -1402, -1398, -1394, -1390, -1386, -1382, -1378,
    -1374, -1370, -1366, -1363, -1359, -1355, -1351, -1347, -1343, -1339, -1336, -1332,
    -1328, -1324, -1321, -1317, -1313, -1309, -1306, -1302, -1298, -1295, -1291, -1287,
    -1284, -1280, -1277, -1273, -1269, -1266, -1262, -1259, -1255, -1252, -1248, -1245,
    -1241, -1238, -1234, -1231, -1228, -1224, -1221, -1217, -1214, -1211, -1207, -1204,
    -1201, -1197, -1194, -1191, -1187, -1184, -1181, -1178, -1174, -1171, -1168, -1165,
    -1162, -1158, -1155, -1152, -1149, -1146, -1143, -1139, -1136, -1133, -1130, -1127,
    -1124, -1121, -1118, -1115, -1112, -1109, -1106, -1103, -1100, -1097, -1094, -1091,
    -1088, -1085, -1082, -1079, -1076, -1073, -1070, -1067, -1064, -1061, -1058, -1056,
    -1053, -1050, -1047, -1044, -1041, -1038, -1036, -1033, -1030, -1027, -1024, -1022,
    -1019, -1016, -1013, -1011, -1008, -1005, -1002, -1000, -997, -994, -992, -989,
    -986, -983, -981, -978, -976, -973, -970, -968, -965, -962, -960, -957,
    -955, -952, -949, -947, -944, -942, -939, -936, -934, -931, -929, -926,
    -924, -921, -919, -916, -914, -911, -909, -906, -904, -901, -899, -896,
    -894, -892, -889, -887, -884, -882, -879, -877, -875, -872, -870, -868,
    -865, -863, -860, -858, -856, -853, -851, -849, -846, -844, -842, -839,
    -837, -835, -832, -830, -828, -826, -823, -821, -819, -816, -814, -812,
    -810, -807, -805, -803, -801, -799, -796, -794, -792, -790, -787, -785,
    -783, -781, -779, -777, -774, -772, -770, -768, -766, -764, -761, -759,
    -757, -755, -753, -751, -749, -747, -744, -742, -740, -738, -736, -734,
    -732, -730, -728, -726, -724, -722, -719, -717, -715, -713, -711, -709,
    -707, -705, -703, -701, -699, -697, -695, -693, -691, -689, -687, -685,
    -683, -681, -679, -677, -675, -673, -671, -669, -667, -666, -664, -662,
    -660, -658, -656, -654, -652, -650, -648, -646, -644, -642, -641, -639,
    -637, -635, -633, -631, -629, -627, -625, -624, -622, -620, -618, -616,
    -614, -612, -611, -609, -607, -605, -603, -601, -600, -598, -596, -594,
    -592, -591, -589, -587, -585, -583, -582, -580, -578, -576, -574, -573,
    -571, -569, -567, -566, -564, -562, -560, -559, -557, -555, -553, -552,
    -550, -548, -546, -545, -543, -541, -540, -538, -536, -534, -533, -531,
    -529, -528, -526, -524, -523, -521, -519, -518, -516, -514, -512, -511,
    -509, -507, -506, -504, -503, -501, -499, -498, -496, -494, -493, -491,
    -489, -488, -486, -485, -483, -481, -480, -478, -476, -475, -473, -472,
    -470, -468, -467, -465, -464, -462, -460, -459, -457, -456, -454, -453,
    -451, -449, -448, -446, -445, -443, -442, -440, -439, -437, -435, -434,
    -432, -431, -429, -428, -426, -425, -423, -422, -420, -419, -417, -416,
    -414, -412, -411, -409, -408, -406, -405, -403, -402, -400, -399, -397,
    -396, -395, -393, -392, -390, -389, -387, -386, -384, -383, -381, -380,
    -378, -377, -375, -374, -373, -371, -370, -368, -367, -365, -364, -362,
    -361, -360, -358, -357, -355, -354, -352, -351, -350, -348, -347, -345,
    -344, -342, -341, -340, -338, -337, -335, -334, -333, -331, -330, -329,
    -327, -326, -324, -323, -322, -320, -319, -317, -316, -315, -313, -312,
    -311, -309, -308, -307, -305, -304, -302, -301, -300, -298, -297, -296,
    -294, -293, -292, -290, -289, -288, -286, -285, -284, -282, -281, -280,
    -278, -277, -276, -274, -273, -272, -270, -269, -268, -267, -265, -264,
    -263, -261, -260, -259, -257, -256, -255, -254, -252, -251, -250, -248,
    -247, -246, -245, -243, -242, -241, -240, -238, -237, -236, -234, -233,
    -232, -231, -229, -228, -227, -226, -224, -223, -222, -221, -219, -218,
    -217, -216, -214, -213, -212, -211, -209, -208, -207, -206, -205, -203,
    -202, -201, -200, -198, -197, -196, -195, -194, -192, -191, -190, -189,
    -188, -186, -185, -184, -183, -182, -180, -179, -178, -177, -176, -174,
    -173, -172, -171, -170, -168, -167, -166, -165, -164, -163, -161, -160,
    -159, -158, -157, -155, -154, -153, -152, -151, -150, -149, -147, -146,
    -145, -144, -143, -142, -140, -139, -138, -137, -136, -135, -134, -132,
    -131, -130, -129, -128, -127, -126, -124, -123, -122, -121, -120, -119,
    -118, -117, -115, -114, -113, -112, -111, -110, -109, -108, -106, -105,
    -104, -103, -102, -101, -100, -99, -98, -97, -95, -94, -93, -92,
    -91, -90, -89, -88, -87, -86, -84, -83, -82, -81, -80, -79,
    -78, -77, -76, -75, -74, -73, -71, -70, -69, -68, -67, -66,
    -65, -64, -63, -62, -61, -60, -59, -58, -57, -56, -54, -53,
    -52, -51, -50, -49, -48, -47, -46, -45, -44, -43, -42, -41,
    -40, -39, -38, -37, -36, -35, -34, -33, -31, -30, -29, -28,
    -27, -26, -25, -24, -23, -22, -21, -20, -19, -18, -17, -16,
    -15, -14, -13, -12, -11, -10, -9, -8, -7, -6, -5, -4,
    -3, -2, -1, 0, 1
  >>

srgbToLinear(value) == SrgbToLinearTable[value + 1]

\* linearToSrgb followed by the store of its result into the byte array.
linearToSrgb(value) == LinearToSrgbTable[Min(Scale, Max(0, value)) + 1]

\* Math.log on the grid; arguments are channel + Eps, so at least one unit.
Ln(x) == LnTable[Min(Scale + 1, Max(1, x))]

RECURSIVE ExpSearch(_, _, _)
ExpSearch(lo, hi, d) ==
  IF lo >= hi THEN lo
  ELSE LET mid == (lo + hi + 1) \div 2
       IN IF LnTable[mid] <= d THEN ExpSearch(mid, hi, d)
                               ELSE ExpSearch(lo, mid - 1, d)

\* Math.exp on the grid: the inverse of Ln below 1.0, its reciprocal above.
ExpLow(d) == ExpSearch(1, Scale + 1, d)
Exp(d) == IF d <= 0 THEN ExpLow(d) ELSE (Scale * Scale) \div ExpLow(-d)

RECURSIVE CbrtSearch(_, _, _)
CbrtSearch(lo, hi, n) ==
  IF lo >= hi THEN lo
  ELSE LET mid == (lo + hi + 1) \div 2
       IN IF mid * mid * mid <= n THEN CbrtSearch(mid, hi, n)
                                  ELSE CbrtSearch(lo, mid - 1, n)

\* Math.cbrt on the grid (two decimals kept, so that t * 1000 stays in range).
Cbrt(t) == 10 * CbrtSearch(0, 1290, t * Scale)

linearRgbToXyz(r, g, b) ==
  << (412 * r + 358 * g + 180 * b) \div Scale,
     (213 * r + 715 * g + 72 * b) \div Scale,
     (19 * r + 119 * g + 950 * b) \div Scale >>

xyzToLinearRgb(x, y, z) ==
  << (3240 * x - 1537 * y - 499 * z) \div Scale,
     (-969 * x + 1876 * y + 42 * z) \div Scale,
     (56 * x - 204 * y + 1057 * z) \div Scale >>

f(t) == IF t > 8 THEN Cbrt(t) ELSE (7787 * t) \div Scale + 138

finv(t) ==
  LET t3 == (((t * t) \div Scale) * t) \div Scale
  IN IF t3 > 8 THEN t3 ELSE ((t - 138) * Scale) \div 7787

linearRgbToLab(r, g, b) ==
  LET xyz == linearRgbToXyz(r, g, b)
      fx == f((xyz[1] * Scale) \div 950)
      fy == f(xyz[2])
      fz == f((xyz[3] * Scale) \div 1089)
  IN << 116 * fy - 16 * Scale, 500 * (fx - fy), 200 * (fy - fz) >>

labToLinearRgb(L, a, b) ==
  LET fy == (L + 16 * Scale) \div 116
      fx == fy + a \div 500
      fz == fy - b \div 200
      x == (950 * finv(fx)) \div Scale
      y == finv(fy)
      z == (1089 * finv(fz)) \div Scale
  IN xyzToLinearRgb(x, y, z)

hexToLab(hex) ==
  linearRgbToLab(srgbToLinear(hex[1]), srgbToLinear(hex[2]), srgbToLinear(hex[3]))

hexToLinearRgb(hex) ==
  << srgbToLinear(hex[1]), srgbToLinear(hex[2]), srgbToLinear(hex[3]) >>

RECURSIVE SumRange(_, _, _)
SumRange(arr, lo, hi) ==
  IF lo > hi THEN 0 ELSE arr[lo + 1] + SumRange(arr, lo + 1, hi)

\* boxBlurFloat: the windowed sum the integral image yields, over the window
\* clamped to the image, divided by the clamped window's area.
boxBlurFloat(src, width, height, radius) ==
  [ k \in 1..(width * height) |->
      LET x == (k - 1) % width
          y == (k - 1) \div width
          x1 == Max(0, x - radius)
          x2 == Min(width - 1, x + radius)
          y1 == Max(0, y - radius)
          y2 == Min(height - 1, y + radius)
          rowSum[yy \in y1..y2] == SumRange(src, yy * width + x1, yy * width + x2)
          sum[yy \in (y1 - 1)..y2] == IF yy < y1 THEN 0 ELSE sum[yy - 1] + rowSum[yy]
          area == (x2 - x1 + 1) * (y2 - y1 + 1)
      IN sum[y2] \div area ]

-----------------------------------------------------------------------------
(* imageUtils: white balance, mask conversion, the two recolor steps *)

Pixels == 0..(NPix - 1)

\* applyWhiteBalance: wb is <<r, g, b>> on the grid; alpha is copied.
applyWhiteBalance(image, wb) ==
  [ j \in 1..Len(image) |->
      IF (j - 1) % 4 = 3 THEN image[j]
      ELSE ToUint8Clamped(Min(255 * Scale, image[j] * wb[((j - 1) % 4) + 1]), Scale) ]

RECURSIVE MaskScan(_, _)
MaskScan(mask, i) ==
  IF i >= NPix THEN << >>
  ELSE (IF mask[4 * i + 1] > 0 THEN << i >> ELSE << >>) \o MaskScan(mask, i + 1)

\* maskToIndices: the flat indices, in row-major order, whose red byte is set.
maskToIndices(mask) == MaskScan(mask, 0)

RECURSIVE SumAt(_, _, _)
SumAt(arr, indices, k) ==
  IF k > Len(indices) THEN 0 ELSE arr[indices[k] + 1] + SumAt(arr, indices, k + 1)

\* gray[i] / meanGray, line 124, for a zero mean: the grays are not negative, so
\* every masked gray is 0 and the quotient is 0/0.
ChromaRatioIsNaN(g, meanGray) == meanGray = 0 /\ g = 0

\* One pass of the second loop of applyRetinexRecolor: the three bytes of pixel i.
RetinexPixel(i, meanL, meanA, meanB, meanGray, lab, precomp) ==
  IF ChromaRatioIsNaN(precomp.gray[i + 1], meanGray)
  THEN \* gray / meanGray is 0/0 = NaN; it reaches every channel, and a NaN
       \* stored into the clamped byte array is 0
       << 0, 0, 0 >>
  ELSE
    LET ratio == IF meanGray = 0 THEN Scale
                 ELSE (precomp.gray[i + 1] * Scale) \div meanGray
        chromaScale == Min(Max(ratio, 400), Scale)
        a == lab[2] + ((precomp.A[i + 1] - meanA) * chromaScale) \div Scale
        b == lab[3] + ((precomp.B[i + 1] - meanB) * chromaScale) \div Scale
        rawScale == IF meanL > 0 THEN (lab[1] * Scale) \div meanL ELSE Scale
        lightnessScale == Min(rawScale, 5 * Scale)
        Lval == Min(Max((precomp.L[i + 1] * lightnessScale) \div Scale, 0), 100 * Scale)
        lin == labToLinearRgb(Lval, a, b)
    IN << linearToSrgb((lin[1] * precomp.shade[i + 1]) \div Scale),
          linearToSrgb((lin[2] * precomp.shade[i + 1]) \div Scale),
          linearToSrgb((lin[3] * precomp.shade[i + 1]) \div Scale) >>

\* A faulty variant of the loop below: three bytes per pixel instead of four.
RECURSIVE RetinexLoopPacked(_, _, _, _, _, _, _, _, _)
RetinexLoopPacked(data, indices, k, meanL, meanA, meanB, meanGray, lab, precomp) ==
  IF k > Len(indices) THEN data
  ELSE LET i == indices[k]
           p == i * 3
           rgb == RetinexPixel(i, meanL, meanA, meanB, meanGray, lab, precomp)
       IN RetinexLoopPacked([data EXCEPT ![p + 1] = rgb[1], ![p + 2] = rgb[2], ![p + 3] = rgb[3]],
                            indices, k + 1, meanL, meanA, meanB, meanGray, lab, precomp)

\* The loop of applyRetinexRecolor, lines 121-143, from the k-th masked pixel on.
RECURSIVE RetinexLoop(_, _, _, _, _, _, _, _, _)
RetinexLoop(data, indices, k, meanL, meanA, meanB, meanGray, lab, precomp) ==
  IF k > Len(indices) THEN data
  ELSE LET i == indices[k]
           p == i * 4
           rgb == RetinexPixel(i, meanL, meanA, meanB, meanGray, lab, precomp)
       IN RetinexLoop([data EXCEPT ![p + 1] = rgb[1], ![p + 2] = rgb[2], ![p + 3] = rgb[3]],
                      indices, k + 1, meanL, meanA, meanB, meanGray, lab, precomp)

\* applyRetinexRecolor: the content of baseData.data after the call.
applyRetinexRecolor(data, indices, colorHex, precomp) ==
  LET count == Len(indices)
  IN IF count = 0 THEN data
     ELSE RetinexLoop(data, indices, 1,
                      SumAt(precomp.L, indices, 1) \div count,
                      SumAt(precomp.A, indices, 1) \div count,
                      SumAt(precomp.B, indices, 1) \div count,
                      SumAt(precomp.gray, indices, 1) \div count,
                      hexToLab(colorHex), precomp)

RECURSIVE SumAt3(_, _, _, _)
SumAt3(arr, indices, k, c) ==
  IF k > Len(indices) THEN 0
  ELSE arr[indices[k] * 3 + c + 1] + SumAt3(arr, indices, k + 1, c)

\* gain = target / mean, line 26 of color-transfer.ts: finite unless the mean is 0.
GainIsFinite(mean) == mean # 0

\* One channel of applyReflectanceColor for a pixel: clamp(R * gain) * s + sp, as
\* a byte.  mean = 0 makes gain = target / 0: Infinity, or NaN for a zero target.
ReflectanceChannel(refl, target, mean, s, sp) ==
  IF ~GainIsFinite(mean)
  THEN IF refl = 0 \/ target = 0
       THEN 0                                 \* 0 * Infinity or x * NaN: NaN, stored as 0
       ELSE linearToSrgb(s + sp)              \* R * Infinity clamps to 1
  ELSE LET gain == (target * Scale) \div mean
           r == Min(Scale, Max(0, (refl * gain) \div Scale))
       IN linearToSrgb((r * s) \div Scale + sp)

RECURSIVE ReflectanceLoop(_, _, _, _, _, _)
ReflectanceLoop(data, decomposition, indices, k, target, mean) ==
  IF k > Len(indices) THEN data
  ELSE LET idx == indices[k]
           b3 == idx * 3
           s == decomposition.S[idx + 1]
           sp == decomposition.E[b3 + 1]
           p == idx * 4
           out(c) == ReflectanceChannel(decomposition.R[b3 + c + 1], target[c + 1],
                                        mean[c + 1], s, sp)
       IN ReflectanceLoop([data EXCEPT ![p + 1] = out(0), ![p + 2] = out(1), ![p + 3] = out(2)],
                          decomposition, indices, k + 1, target, mean)

\* applyReflectanceColor: the content of image.data after the call.  With no index
\* the means are 0/0 and the loop body never runs.
ReflectanceMean(decomposition, indices) ==
  LET n == Len(indices)
  IN IF n = 0 THEN << 0, 0, 0 >>
     ELSE << SumAt3(decomposition.R, indices, 1, 0) \div n,
             SumAt3(decomposition.R, indices, 1, 1) \div n,
             SumAt3(decomposition.R, indices, 1, 2) \div n >>

\* The same function painting the whole image when no pixel is selected.
applyReflectanceColorWhole(data, decomposition, indices, hex) ==
  LET all == [ k \in 1..NPix |-> k - 1 ]
      chosen == IF Len(indices) = 0 THEN all ELSE indices
  IN ReflectanceLoop(data, decomposition, chosen, 1, hexToLinearRgb(hex),
                     ReflectanceMean(decomposition, chosen))

applyReflectanceColor(data, decomposition, indices, hex) ==
  ReflectanceLoop(data, decomposition, indices, 1, hexToLinearRgb(hex),
                  ReflectanceMean(decomposition, indices))

\* process, lines 188-226: the Retinex illumination model of a balanced image.
RETINEX_BLUR_RADIUS == 15

ComputeRetinex(data) ==
  LET rl(i) == srgbToLinear(data[4 * i + 1])
      gl(i) == srgbToLinear(data[4 * i + 2])
      bl(i) == srgbToLinear(data[4 * i + 3])
      lum(i) == (2126 * rl(i) + 7152 * gl(i) + 722 * bl(i)) \div 10000
      logR == [ k \in 1..NPix |-> Ln(rl(k - 1) + Eps) ]
      logG == [ k \in 1..NPix |-> Ln(gl(k - 1) + Eps) ]
      logB == [ k \in 1..NPix |-> Ln(bl(k - 1) + Eps) ]
      logL == [ k \in 1..NPix |-> Ln(lum(k - 1) + Eps) ]
      S_log == boxBlurFloat(logL, Width, Height, RETINEX_BLUR_RADIUS)
      lab == [ k \in 1..NPix |->
                 linearRgbToLab(Exp(logR[k] - S_log[k]), Exp(logG[k] - S_log[k]),
                                Exp(logB[k] - S_log[k])) ]
  IN [ L |-> [ k \in 1..NPix |-> lab[k][1] ],
       A |-> [ k \in 1..NPix |-> lab[k][2] ],
       B |-> [ k \in 1..NPix |-> lab[k][3] ],
       gray |-> [ k \in 1..NPix |-> lum(k - 1) ],
       shade |-> [ k \in 1..NPix |-> Exp(S_log[k]) ] ]

-----------------------------------------------------------------------------
(* Inputs the model draws: images, white balances, colours, masks *)

Null == << >>

\* Pixel k of an input image takes the k-th colour of a palette, cyclically.
PaletteImage(palette) ==
  [ j \in 1..(4 * NPix) |->
      IF (j - 1) % 4 = 3 THEN 255
      ELSE palette[(((j - 1) \div 4) % Len(palette)) + 1][((j - 1) % 4) + 1] ]

ImageA == PaletteImage(<< <<200, 180, 160>>, <<120, 110, 100>>, <<60, 70, 80>> >>)
ImageB == PaletteImage(<< <<90, 140, 200>>, <<0, 0, 0>>, <<230, 230, 210>> >>)
RawImages == { ImageA, ImageB }

NeutralBalance == << Scale, Scale, Scale >>
WhiteBalances == { NeutralBalance, << 1100, 1000, 900 >> }

Red == << 255, 0, 0 >>
Blue == << 30, 60, 200 >>
White == << 255, 255, 255 >>
Colors == { Red, Blue }

\* A dense mask as the engine returns it: 255 in every byte of a member pixel.
DenseMask(members) ==
  [ j \in 1..(4 * NPix) |->
      IF ((j - 1) \div 4) \in members THEN 255 ELSE IF (j - 1) % 4 = 3 THEN 255 ELSE 0 ]

LowHalf == { i \in Pixels : i < (NPix + 1) \div 2 }
Inner == { i \in Pixels : 0 < i /\ i < NPix - 1 }
OddPixels == { i \in Pixels : i % 2 = 1 }

\* What one decoder call can return: up to topK = 3 ranked candidate masks.
CandidateLists ==
  { << DenseMask(LowHalf), DenseMask(Pixels) >>,
    << DenseMask(OddPixels) >>,
    << DenseMask(Inner), DenseMask({}) >> }

\* Pointer positions of a click, with the label the Alt key gives.
ClickInputs == { [ x |-> 0, y |-> 0, label |-> 1 ],
                 [ x |-> Width - 1, y |-> Height - 1, label |-> 0 ] }

GroupNames == { "Walls", "Trim" }

LIGHTING_SETTINGS ==
  [ normal |-> [ r |-> 100, g |-> 100, b |-> 100, brightness |-> 100 ],
    morning |-> [ r |-> 110, g |-> 105, b |-> 95, brightness |-> 110 ],
    night |-> [ r |-> 90, g |-> 95, b |-> 110, brightness |-> 80 ] ]

LightingModes == { "normal", "morning", "night" }

\* applyLighting: the canvas content after the call (factors in percent).
applyLighting(data, mode) ==
  IF mode \notin DOMAIN LIGHTING_SETTINGS \/ mode = "normal" THEN data
  ELSE LET preset == LIGHTING_SETTINGS[mode]
           factor(c) == IF c = 0 THEN preset.r ELSE IF c = 1 THEN preset.g ELSE preset.b
       IN [ j \in 1..Len(data) |->
              IF (j - 1) % 4 = 3 THEN data[j]
              ELSE ToUint8Clamped(Min(255 * 10000, data[j] * factor((j - 1) % 4) * preset.brightness),
                                  10000) ]

\* NIIDNet.decompose: the network is external; its output for an image is taken to
\* be a decomposition with reflectance = linear colour over the shading, for a
\* shading that varies over the pixels.
Shading(i) == 600 + 100 * (i % 4)

Decompositions(data) ==
  { [ R |-> [ k \in 1..(3 * NPix) |->
                Min(Scale, (srgbToLinear(data[4 * ((k - 1) \div 3) + ((k - 1) % 3) + 1]) * Scale)
                             \div Shading((k - 1) \div 3)) ],
      S |-> [ k \in 1..NPix |-> Shading(k - 1) ],
      E |-> [ k \in 1..(3 * NPix) |-> 0 ] ] }

HISTORY_LIMIT == 20
TOP_K == 3

-----------------------------------------------------------------------------
(* State of DesignPage / ImageCanvas *)

VARIABLES
  rawImageData,        \* useState: the decoded upload, Null before image.onload
  whiteBalance,        \* prop
  algorithm,           \* prop: "retinex" or "intrinsic"
  selectedColor,       \* prop
  lighting,            \* prop
  originalImageData,   \* useState: the pristine white-balanced image
  baseImageData,       \* useState: the working image
  history,             \* useState: sequence of [imageData, timestamp]
  currentHistoryIndex, \* useState: 0-based cursor, -1 initially
  sam,                 \* useState: TRUE once a SAM2 instance is initialised
  niid,                \* useState: TRUE once a NIIDNet instance is initialised
  isProcessing,        \* useState
  status,              \* useState
  walls,               \* useState: sequence of surfaces
  groups,              \* useState: sequence of groups
  surfaceCounter,      \* useRef
  points,              \* useState
  candidateMasks,      \* useState
  candidateIndex,      \* useState
  retinexRef,          \* useRef: << >> for null, else << RetinexData >>
  intrinsicRef,        \* useRef: << >> for null, else << decomposition >>
  canvas,              \* the pixels of the <canvas>
  samEmbedding,        \* SAM2.imageEmbedding, named by the image it encodes; Null if none
  pending,             \* initialisations and process() calls suspended at an await
  maskRequests,        \* generateCandidates() calls suspended at their await
  timers,              \* pending setTimeout(() => setIsProcessing(false))
  now,                 \* Date.now() as read for history entries, one tick per reading
  groupClock,          \* Date.now() as read for group ids, one tick per reading
  candidateSource,     \* history variable: the image whose embedding produced candidateMasks
  lastOp,              \* history variable: the last handler to run, of those Ghost marks
  pre,                 \* history variable: history, cursor and base before that handler
  pushLog,             \* history variable: the snapshots pushed one after another onto the
                       \* end of the present history (no truncation, reset or load between)
  hoverTimer,          \* useRef (current), with the window's pending hover timeouts
  hoverCalls,          \* hover callbacks suspended at `await sam.generateMask`
  clock,               \* milliseconds since the component mounted
  lastMove,            \* history variable: the clock at the last pointer move
  budget,              \* what the environment may still do (bounds the run)
  rc,                  \* harness for the recolor steps as pure functions
  mem,                 \* the image buffers as objects with identity (see "Buffers")
  engine,              \* the fields of one SAM2 instance (see "The segmentation engine")
  engineCalls,         \* calls of that instance's methods suspended at an await
  engineLog,           \* history variable: how the calls made so far ended
  runtime,             \* ort.env, SAM2.isInitialized and the initialize calls of several instances
  unit,                \* harness for pure functions of the engine: input and result
  isBoxMode,           \* useState
  boxStart,            \* useState: Null, or << [x, y] >> while a box is dragged
  box,                 \* useState: Null, or << [x1, y1, x2, y2] >>
  mouseUps             \* the window's mouseup listeners, each with the points of its render

propVars == << rawImageData, whiteBalance, algorithm, selectedColor, lighting >>
imageVars == << originalImageData, baseImageData, retinexRef, intrinsicRef, canvas >>
historyVars == << history, currentHistoryIndex >>
surfaceVars == << walls, groups, surfaceCounter >>
selectionVars == << points, candidateMasks, candidateIndex, candidateSource >>
engineVars == << sam, niid, samEmbedding >>
asyncVars == << pending, maskRequests, timers, isProcessing, status >>
ghostVars == << lastOp, pre, pushLog >>
hoverVars == << hoverTimer, hoverCalls, clock, lastMove >>
engineObject == << engine, engineCalls, engineLog >>
labVars == << runtime, unit >>
boxVars == << isBoxMode, boxStart, box, mouseUps >>
harnessVars == << rc, mem, engineObject, labVars >>

\* What the handlers of the component never touch, but for the hover timer.
otherVars == << harnessVars, boxVars >>

vars == << propVars, imageVars, historyVars, surfaceVars, selectionVars, engineVars,
           asyncVars, ghostVars, hoverVars, now, groupClock, budget, rc, mem, engineObject,
           labVars, boxVars >>

appVars == << propVars, imageVars, historyVars, surfaceVars, selectionVars, engineVars,
              asyncVars, ghostVars, hoverVars, now, groupClock, budget, boxVars >>

\* hoverTimer.current without a timeout id: null.
NoTimer == 0

\* A freshly created <canvas>: transparent black.
BlankCanvas == [ j \in 1..(4 * NPix) |-> 0 ]

BudgetKeys == { "load", "balance", "algorithm", "lighting", "color", "click", "select",
                "apply", "edit", "group", "commit", "undo", "redo", "reset", "fault",
                "move", "leave", "hover", "tick", "box",
                "props", "travel", "ops" }

NoBudget == [ k \in BudgetKeys |-> 0 ]

\* The component after its first render, before any image has been decoded.
InitApp(b) ==
  /\ rawImageData = Null
  /\ whiteBalance = NeutralBalance
  /\ algorithm = "retinex"
  /\ selectedColor = White
  /\ lighting = "normal"
  /\ originalImageData = Null
  /\ baseImageData = Null
  /\ history = << >>
  /\ currentHistoryIndex = -1
  /\ sam = FALSE
  /\ niid = FALSE
  /\ isProcessing = TRUE          \* initSAM's effect has run setIsProcessing(true)
  /\ status = "Initializing SAM2..."
  /\ walls = << >>
  /\ groups = << >>
  /\ surfaceCounter = 1
  /\ points = << >>
  /\ candidateMasks = << >>
  /\ candidateIndex = 0
  /\ retinexRef = Null
  /\ intrinsicRef = Null
  /\ canvas = BlankCanvas
  /\ samEmbedding = Null
  /\ pending = << [ stage |-> "samInit" ] >>   \* initSAM() is awaiting the model files
  /\ maskRequests = << >>
  /\ timers = 0
  /\ now = 1
  /\ groupClock = 1
  /\ candidateSource = Null
  /\ lastOp = "mount"
  /\ pre = [ history |-> << >>, index |-> -1, base |-> Null ]
  /\ pushLog = << >>
  /\ hoverTimer = [ current |-> NoTimer, scheduled |-> << >>, nextId |-> 1 ]
  /\ hoverCalls = << >>
  /\ clock = 0
  /\ isBoxMode = FALSE
  /\ boxStart = Null
  /\ box = Null
  /\ mouseUps = << >>
  /\ lastMove = 0
  /\ budget = b

\* The harnesses at rest: no buffer allocated, no SAM2 instance driven.
IdleMem == [ on |-> FALSE ]
IdleEngine == [ on |-> FALSE ]
IdleRuntime == [ on |-> FALSE ]
IdleUnit == [ on |-> FALSE ]
IdleLab == runtime = IdleRuntime /\ unit = IdleUnit
IdleHarness ==
  /\ mem = IdleMem
  /\ engine = IdleEngine
  /\ engineCalls = << >>
  /\ engineLog = << >>
  /\ IdleLab

\* Kinds of events budgeted together: changes of a prop, moves of the cursor.
ClassOf(key) ==
  IF key \in { "balance", "algorithm", "lighting", "color" } THEN "props"
  ELSE IF key \in { "undo", "redo", "reset" } THEN "travel"
  ELSE key

\* One more event of kind `key`, while that kind, its class and the run as a whole
\* ("ops") allow it.
Charged(key) == { key, ClassOf(key), "ops" }

Spend(key) ==
  /\ \A k \in Charged(key) : budget[k] > 0
  /\ budget' = [ k \in BudgetKeys |-> budget[k] - (IF k \in Charged(key) THEN 1 ELSE 0) ]

\* The handlers that end in saveToHistory.
PushOps == { "apply", "toggle", "remove", "assign", "commit" }

\* Bookkeeping of a step made by handler `op`, one of those that can touch the
\* images, the history or the surfaces; conjoined after the step's Set.
Ghost(op) ==
  /\ lastOp' = op
  /\ pre' = [ history |-> history, index |-> currentHistoryIndex, base |-> baseImageData ]
  /\ pushLog' = IF op \in PushOps /\ history' # history
                THEN (IF currentHistoryIndex = Len(history) - 1
                      THEN Append(pushLog, history'[Len(history')])
                      ELSE << history'[Len(history')] >>)
                ELSE IF history' = history THEN pushLog ELSE << >>

\* Bookkeeping of the other steps.
Quiet == UNCHANGED ghostVars

RemoveAt(seq, k) == SubSeq(seq, 1, k - 1) \o SubSeq(seq, k + 1, Len(seq))

\* clearTimeout(id): the timeout with that id, if still pending, will not fire.
clearTimeout(scheduled, id) == SelectSeq(scheduled, LAMBDA t : t.id # id)

\* `if (hoverTimer.current) clearTimeout(hoverTimer.current)`, lines 345-347.
CancelHover(h) ==
  IF h.current # NoTimer THEN [ h EXCEPT !.scheduled = clearTimeout(h.scheduled, h.current) ] ELSE h

\* The end of clearHover, lines 365-368: the same, and the ref is reset.
ResetHover(h) ==
  IF h.current # NoTimer THEN [ CancelHover(h) EXCEPT !.current = NoTimer ] ELSE h

\* The hover callbacks awaiting their mask when the pointer leaves or a click is
\* accepted are marked (history field `dismissed`).
Dismissed(calls) == [ k \in 1..Len(calls) |-> [ calls[k] EXCEPT !.dismissed = TRUE ] ]

-----------------------------------------------------------------------------
(* Rendering *)

\* drawCanvas's overlay: white at half opacity where the mask's red byte is set.
Overlay(data, mask) ==
  [ j \in 1..Len(data) |->
      IF mask[4 * ((j - 1) \div 4) + 1] > 0
      THEN (IF (j - 1) % 4 = 3 THEN 128 ELSE 255)
      ELSE data[j] ]

\* The state a handler sees: the values of the render it was created in (state
\* variables) and the live values of refs, canvas and engine.  Handlers below map
\* such a record to the record of values after the handler and the render that
\* follows it.
Cur ==
  [ rawImageData |-> rawImageData, whiteBalance |-> whiteBalance, algorithm |-> algorithm,
    selectedColor |-> selectedColor, lighting |-> lighting,
    originalImageData |-> originalImageData, baseImageData |-> baseImageData,
    history |-> history, currentHistoryIndex |-> currentHistoryIndex,
    sam |-> sam, niid |-> niid, isProcessing |-> isProcessing, status |-> status,
    walls |-> walls, groups |-> groups, surfaceCounter |-> surfaceCounter,
    points |-> points, candidateMasks |-> candidateMasks, candidateIndex |-> candidateIndex,
    retinexRef |-> retinexRef, intrinsicRef |-> intrinsicRef, canvas |-> canvas,
    samEmbedding |-> samEmbedding, pending |-> pending, maskRequests |-> maskRequests,
    timers |-> timers, now |-> now, groupClock |-> groupClock, candidateSource |-> candidateSource ]

\* The handler's result v becomes the next state.
Set(s) ==
  \E v \in { s } :
    /\ rawImageData' = v.rawImageData
    /\ whiteBalance' = v.whiteBalance
    /\ algorithm' = v.algorithm
    /\ selectedColor' = v.selectedColor
    /\ lighting' = v.lighting
    /\ originalImageData' = v.originalImageData
    /\ baseImageData' = v.baseImageData
    /\ history' = v.history
    /\ currentHistoryIndex' = v.currentHistoryIndex
    /\ sam' = v.sam
    /\ niid' = v.niid
    /\ isProcessing' = v.isProcessing
    /\ status' = v.status
    /\ walls' = v.walls
    /\ groups' = v.groups
    /\ surfaceCounter' = v.surfaceCounter
    /\ points' = v.points
    /\ candidateMasks' = v.candidateMasks
    /\ candidateIndex' = v.candidateIndex
    /\ retinexRef' = v.retinexRef
    /\ intrinsicRef' = v.intrinsicRef
    /\ canvas' = v.canvas
    /\ samEmbedding' = v.samEmbedding
    /\ pending' = v.pending
    /\ maskRequests' = v.maskRequests
    /\ timers' = v.timers
    /\ now' = v.now
    /\ groupClock' = v.groupClock
    /\ candidateSource' = v.candidateSource

\* drawCanvas(mask), lines 258-313, on the state s: the history entry at the cursor
\* under the lighting preset, with the mask laid over it (<< >>: no mask).  Without
\* an entry at the cursor it returns before drawing.
drawCanvas(s, mask) ==
  IF s.currentHistoryIndex < 0 \/ s.currentHistoryIndex >= Len(s.history) THEN s.canvas
  ELSE LET lit == applyLighting(s.history[s.currentHistoryIndex + 1].imageData, s.lighting)
       IN IF mask = << >> THEN lit ELSE Overlay(lit, mask)

CurrentCandidate(s) ==
  IF s.candidateIndex < Len(s.candidateMasks) THEN s.candidateMasks[s.candidateIndex + 1]
  ELSE << >>

\* The effects that follow a render in which the base image, the history, the
\* cursor, the lighting or the selection changed: the lighting effect (752-761)
\* paints the base image, then the candidate effect (763-767) calls drawCanvas.
Render(s) ==
  LET lit == IF s.baseImageData # Null
             THEN [ s EXCEPT !.canvas = applyLighting(s.baseImageData, s.lighting) ]
             ELSE s
  IN IF Len(lit.candidateMasks) > 0
     THEN [ lit EXCEPT !.canvas = drawCanvas(lit, CurrentCandidate(lit)) ]
     ELSE lit

-----------------------------------------------------------------------------
(* process(): the effect run when rawImageData, whiteBalance, sam, algorithm or
   niid changes *)

\* The images process() can be given, and their illumination models, tabulated.
BalancedImages == { applyWhiteBalance(img, wb) : img \in RawImages, wb \in WhiteBalances }
RetinexTable == [ data \in BalancedImages |-> ComputeRetinex(data) ]
RetinexOf(data) == RetinexTable[data]

\* Lines 188-251, reached directly or after the decomposition was awaited.
ProcessCommit(s, balancedData, hasSam) ==
  LET t == [ s EXCEPT !.retinexRef = << RetinexOf(balancedData) >>,
                      !.baseImageData = balancedData,
                      !.history = << [ imageData |-> balancedData, timestamp |-> s.now ] >>,
                      !.now = s.now + 1,
                      !.currentHistoryIndex = 0,
                      !.walls = << >>,
                      !.groups = << >> ]
  IN IF hasSam
     THEN [ t EXCEPT !.status = "Generating image embeddings...",
                     !.pending = Append(t.pending, [ stage |-> "embed", image |-> balancedData ]) ]
     ELSE [ t EXCEPT !.status = "Ready", !.timers = t.timers + 1 ]

\* Lines 163-186, on the state s of the render that triggered the effect.
Process(s) ==
  IF s.rawImageData = Null THEN s
  ELSE LET balancedData == applyWhiteBalance(s.rawImageData, s.whiteBalance)
           t == [ s EXCEPT !.isProcessing = TRUE,
                           !.status = "Processing image...",
                           !.originalImageData = balancedData,
                           !.canvas = balancedData ]
       IN IF t.algorithm = "intrinsic" /\ t.niid
          THEN [ t EXCEPT !.status = "Running NIID-Net...",
                          !.pending = Append(t.pending,
                                             [ stage |-> "decompose", image |-> balancedData,
                                               sam |-> t.sam ]) ]
          ELSE Render(ProcessCommit(t, balancedData, t.sam))

\* image.onload: the decoded image is drawn and stored; process() follows.
ImageOnload(img) ==
  /\ Spend("load")
  /\ Set(Process([ Cur EXCEPT !.rawImageData = img, !.canvas = img ]))
  /\ Ghost("load")
  /\ UNCHANGED << hoverVars, otherVars >>

\* setWhiteBalance (the controls, or the automatic balance after an upload).
SetWhiteBalance(wb) ==
  /\ Spend("balance")
  /\ wb # whiteBalance
  /\ Set(Process([ Cur EXCEPT !.whiteBalance = wb ]))
  /\ Ghost("balance")
  /\ UNCHANGED << hoverVars, otherVars >>

\* initNIID(), lines 93-108, up to its await.
InitNIID(s) ==
  IF s.algorithm # "intrinsic" THEN s
  ELSE [ s EXCEPT !.isProcessing = TRUE,
                  !.status = "Loading NIID-Net...",
                  !.pending = Append(s.pending, [ stage |-> "niidInit" ]) ]

\* The algorithm selector: both effects that depend on `algorithm` run.
SetAlgorithm(alg) ==
  /\ Spend("algorithm")
  /\ alg # algorithm
  /\ Set(Process(InitNIID([ Cur EXCEPT !.algorithm = alg ])))
  /\ Ghost("algorithm")
  /\ UNCHANGED << hoverVars, otherVars >>

\* The lighting selector if `lighting` were among the dependencies of process().
SetLightingReprocess(mode) ==
  /\ Spend("lighting")
  /\ mode # lighting
  /\ Set(Process([ Cur EXCEPT !.lighting = mode ]))
  /\ Quiet
  /\ UNCHANGED << hoverVars, otherVars >>

\* The lighting selector: the lighting effect and, with candidates, drawCanvas.
SetLighting(mode) ==
  /\ Spend("lighting")
  /\ mode # lighting
  /\ Set(Render([ Cur EXCEPT !.lighting = mode ]))
  /\ Quiet
  /\ UNCHANGED << hoverVars, otherVars >>

\* The page's colour picker.
SetSelectedColor(color) ==
  /\ Spend("color")
  /\ color # selectedColor
  /\ Set([ Cur EXCEPT !.selectedColor = color ])
  /\ Quiet
  /\ UNCHANGED << hoverVars, otherVars >>

-----------------------------------------------------------------------------
(* Completions of awaited work *)

\* initSAM(), lines 129-138, after its awaits.
SamInitDone(k, ok) ==
  /\ k \in 1..Len(pending)
  /\ pending[k].stage = "samInit"
  /\ IF ok THEN UNCHANGED budget ELSE Spend("fault")
  /\ LET s == [ Cur EXCEPT !.pending = RemoveAt(pending, k), !.timers = timers + 1 ]
     IN IF ok
        THEN Set(Process([ s EXCEPT !.sam = TRUE ]))
        ELSE Set([ s EXCEPT !.status = "Failed to initialize SAM2" ])
  /\ Ghost("samInit")
  /\ UNCHANGED << hoverVars, otherVars >>

\* initNIID(), lines 99-107, after its await.
NiidInitDone(k, ok) ==
  /\ k \in 1..Len(pending)
  /\ pending[k].stage = "niidInit"
  /\ IF ok THEN UNCHANGED budget ELSE Spend("fault")
  /\ LET s == [ Cur EXCEPT !.pending = RemoveAt(pending, k), !.timers = timers + 1 ]
     IN IF ok
        THEN Set(Process([ s EXCEPT !.niid = TRUE, !.status = "NIID-Net loaded" ]))
        ELSE Set([ s EXCEPT !.status = "Failed to load NIID-Net" ])
  /\ Ghost("niidInit")
  /\ UNCHANGED << hoverVars, otherVars >>

\* process() resumed after `await niid.decompose(balancedData)`: lines 181-251 on
\* success, the catch at 246-251 when the network throws.
DecomposeDone(k, ok) ==
  /\ k \in 1..Len(pending)
  /\ pending[k].stage = "decompose"
  /\ IF ok THEN UNCHANGED budget ELSE Spend("fault")
  /\ LET run == pending[k]
         s == [ Cur EXCEPT !.pending = RemoveAt(pending, k) ]
     IN IF ok
        THEN \E d \in Decompositions(run.image) :
               Set(Render(ProcessCommit([ s EXCEPT !.intrinsicRef = << d >> ],
                                        run.image, run.sam)))
        ELSE Set([ s EXCEPT !.status = "Failed to process image", !.timers = s.timers + 1 ])
  /\ Ghost("decompose")
  /\ UNCHANGED << hoverVars, otherVars >>

\* process() resumed after `await sam.generateEmbedding(balancedData)`: the engine
\* holds the new embedding on success and keeps what it had on failure; line 245
\* sets the status either way.
EmbeddingDone(k, ok) ==
  /\ k \in 1..Len(pending)
  /\ pending[k].stage = "embed"
  /\ IF ok THEN UNCHANGED budget ELSE Spend("fault")
  /\ LET run == pending[k]
         s == [ Cur EXCEPT !.pending = RemoveAt(pending, k), !.status = "Ready",
                           !.timers = timers + 1 ]
     IN IF ok THEN Set([ s EXCEPT !.samEmbedding = run.image ]) ELSE Set(s)
  /\ Quiet
  /\ UNCHANGED << hoverVars, otherVars >>

\* A pending setTimeout(() => setIsProcessing(false)) fires.
TimerFire ==
  /\ timers > 0
  /\ Set([ Cur EXCEPT !.timers = timers - 1, !.isProcessing = FALSE ])
  /\ Quiet
  /\ UNCHANGED << budget, hoverVars, otherVars >>

-----------------------------------------------------------------------------
(* Selection: clicks and candidate masks *)

\* handleMouseDown in point mode, lines 453-493, with generateCandidates up to its
\* await (371-378).  The engine reads its embedding when generateMasks is called.
HandleMouseDown(click) ==
  /\ Spend("click")
  /\ ~(~sam \/ isProcessing)      \* line 454: otherwise the handler returns at once
  /\ ~isBoxMode                   \* line 470: the box branch is HandleMouseDownBox
  /\ hoverTimer' = ResetHover(hoverTimer)     \* clearHover, lines 365-368
  /\ hoverCalls' = Dismissed(hoverCalls)
  /\ LET pts == Append(points, click)
         cleared == [ Cur EXCEPT !.canvas = drawCanvas(Cur, CurrentCandidate(Cur)) ]
     IN Set(Render([ cleared EXCEPT
              !.points = pts,
              !.isProcessing = TRUE,
              !.status = "Generating mask...",
              !.maskRequests = Append(maskRequests,
                                      [ points |-> pts, embedding |-> samEmbedding,
                                        from |-> "click" ]) ]))
  /\ Quiet
  /\ UNCHANGED << clock, lastMove, otherVars >>

\* sam.generateMasks throws before any inference without an embedding (imageUtils.ts
\* lines 572-576) and without a point (lines 584-586).
Answerable(request) == request.embedding # Null /\ Len(request.points) > 0

\* A faulty variant of the handler below: a failed request drops the history.
MaskRequestDoneDropHistory(k, ok, masks) ==
  /\ k \in 1..Len(maskRequests)
  /\ ok => Answerable(maskRequests[k])
  /\ IF ok \/ ~Answerable(maskRequests[k]) THEN UNCHANGED budget ELSE Spend("fault")
  /\ LET s == [ Cur EXCEPT !.maskRequests = RemoveAt(maskRequests, k),
                           !.timers = timers + 1 ]
     IN IF ok
        THEN Set(Render([ s EXCEPT !.candidateMasks = SubSeq(masks, 1, Min(TOP_K, Len(masks))),
                                   !.candidateIndex = 0,
                                   !.candidateSource = maskRequests[k].embedding,
                                   !.status = "Select a candidate or add more points" ]))
        ELSE Set([ s EXCEPT !.status = "Failed to generate mask",
                            !.history = << >>, !.currentHistoryIndex = -1 ])
  /\ Quiet
  /\ UNCHANGED << hoverVars, otherVars >>

\* generateCandidates resumed, lines 383-391: the decoder returned `masks`, or the
\* call threw (always so without an embedding or without a point).
MaskRequestDone(k, ok, masks) ==
  /\ k \in 1..Len(maskRequests)
  /\ ok => Answerable(maskRequests[k])
  /\ IF ok \/ ~Answerable(maskRequests[k]) THEN UNCHANGED budget ELSE Spend("fault")
  /\ LET s == [ Cur EXCEPT !.maskRequests = RemoveAt(maskRequests, k),
                           !.timers = timers + 1 ]
     IN IF ok
        THEN Set(Render([ s EXCEPT !.candidateMasks = SubSeq(masks, 1, Min(TOP_K, Len(masks))),
                                   !.candidateIndex = 0,
                                   !.candidateSource = maskRequests[k].embedding,
                                   !.status = "Select a candidate or add more points" ]))
        ELSE Set([ s EXCEPT !.status = "Failed to generate mask" ])
  /\ Quiet
  /\ UNCHANGED << hoverVars, otherVars >>

\* The candidate controls' ">" button (shown with candidates, when not processing).
NextCandidate ==
  /\ Spend("select")
  /\ Len(candidateMasks) > 1 /\ ~isProcessing
  /\ Set(Render([ Cur EXCEPT !.candidateIndex = (candidateIndex + 1) % Len(candidateMasks) ]))
  /\ Quiet
  /\ UNCHANGED << hoverVars, otherVars >>

\* clearSelections, lines 444-451.
ClearSelections ==
  /\ Spend("select")
  /\ Len(points) > 0 \/ Len(candidateMasks) > 0 \/ box # Null \/ boxStart # Null
  /\ LET s == [ Cur EXCEPT !.points = << >>, !.candidateMasks = << >>, !.candidateIndex = 0,
                           !.candidateSource = Null ]
     IN Set(Render([ s EXCEPT !.canvas = drawCanvas(Cur, << >>) ]))
  /\ Quiet
  /\ box' = Null /\ boxStart' = Null            \* lines 446-447
  /\ UNCHANGED << hoverVars, harnessVars, isBoxMode, mouseUps >>

-----------------------------------------------------------------------------
(* Recoloring, history and surfaces *)

\* The strategy choice made at every recolor site (lines 408-421, 506-515, 539-548),
\* applied to a copy `data` of an image.
RecolorStep(s, data, indices, color) ==
  IF s.algorithm = "intrinsic" /\ s.intrinsicRef # Null
  THEN applyReflectanceColor(data, s.intrinsicRef[1], indices, color)
  ELSE IF s.retinexRef # Null
       THEN applyRetinexRecolor(data, indices, color, s.retinexRef[1])
       ELSE data

\* A faulty variant of the entry below: the snapshot is read back from the canvas.
NewEntryFromCanvas(c, t, img) == [ imageData |-> t.canvas, timestamp |-> t.now ]

\* The entry saveToHistory appends (lines 559-577).
NewEntry(c, t, img) ==
  LET source == IF img # Null THEN img ELSE c.baseImageData
  IN [ imageData |-> IF source # Null THEN source ELSE t.canvas, timestamp |-> t.now ]

KeptEntries(c) == SubSeq(c.history, 1, Min(c.currentHistoryIndex + 1, Len(c.history)))

\* Faulty variants of saveToHistory: no eviction; the cursor taken before the
\* eviction; no truncation of the redo branch; eviction of the second-oldest entry.
saveToHistoryNoEvict(c, t, img) ==
  LET pushed == Append(KeptEntries(c), NewEntry(c, t, img))
  IN [ t EXCEPT !.history = pushed, !.currentHistoryIndex = Len(pushed) - 1, !.now = t.now + 1 ]

saveToHistoryStaleCursor(c, t, img) ==
  LET pushed == Append(KeptEntries(c), NewEntry(c, t, img))
      newHistory == IF Len(pushed) > HISTORY_LIMIT THEN Tail(pushed) ELSE pushed
  IN [ t EXCEPT !.history = newHistory, !.currentHistoryIndex = Len(pushed) - 1,
                !.now = t.now + 1 ]

saveToHistoryNoTruncate(c, t, img) ==
  LET pushed == Append(c.history, NewEntry(c, t, img))
      newHistory == IF Len(pushed) > HISTORY_LIMIT THEN Tail(pushed) ELSE pushed
  IN [ t EXCEPT !.history = newHistory, !.currentHistoryIndex = Len(newHistory) - 1,
                !.now = t.now + 1 ]

saveToHistoryEvictSecond(c, t, img) ==
  LET pushed == Append(KeptEntries(c), NewEntry(c, t, img))
      newHistory == IF Len(pushed) > HISTORY_LIMIT THEN << Head(pushed) >> \o Tail(Tail(pushed)) ELSE pushed
  IN [ t EXCEPT !.history = newHistory, !.currentHistoryIndex = Len(newHistory) - 1,
                !.now = t.now + 1 ]

\* saveToHistory(img), lines 558-584.  c holds the values the handler's closure
\* sees, t the values being built by the handler (t.canvas is what the canvas shows
\* at the call); img = Null stands for a call without argument.
saveToHistory(c, t, img) ==
  LET pushed == Append(KeptEntries(c), NewEntry(c, t, img))
      newHistory == IF Len(pushed) > HISTORY_LIMIT THEN Tail(pushed) ELSE pushed
  IN [ t EXCEPT !.history = newHistory,
                !.currentHistoryIndex = Len(newHistory) - 1,
                !.now = t.now + 1 ]

\* A faulty variant of the loop below: disabled surfaces are painted too.
RECURSIVE ReapplyLoopAll(_, _, _, _)
ReapplyLoopAll(s, data, wallList, k) ==
  IF k > Len(wallList) THEN data
  ELSE ReapplyLoopAll(s, RecolorStep(s, data, wallList[k].pixels, wallList[k].color),
                      wallList, k + 1)

\* The loop of reapplyWalls, lines 537-549: surfaces k.. of wallList in array order.
RECURSIVE ReapplyLoop(_, _, _, _)
ReapplyLoop(s, data, wallList, k) ==
  IF k > Len(wallList) THEN data
  ELSE ReapplyLoop(s,
                   IF wallList[k].enabled
                   THEN RecolorStep(s, data, wallList[k].pixels, wallList[k].color)
                   ELSE data,
                   wallList, k + 1)

\* reapplyWalls(wallList), lines 527-556: the image it returns, Null when it
\* returns null.
reapplyWalls(s, wallList) ==
  IF s.originalImageData = Null THEN Null
  ELSE ReapplyLoop(s, s.originalImageData, wallList, 1)

\* The state after reapplyWalls returned `base` inside a handler building t.
Reapplied(c, t, base) ==
  IF base = Null THEN t
  ELSE [ t EXCEPT !.baseImageData = base, !.canvas = applyLighting(base, c.lighting) ]

MapWalls(wallList, op(_)) == [ k \in 1..Len(wallList) |-> op(wallList[k]) ]

WallIds == { walls[k].id : k \in 1..Len(walls) }
GroupIds == { groups[k].id : k \in 1..Len(groups) }

\* applyCandidate(mask), lines 394-442.  The button exists while candidates are
\* shown and nothing is processing.
ApplyCandidate ==
  /\ Spend("apply")
  /\ Len(candidateMasks) > 0 /\ ~isProcessing
  /\ candidateIndex < Len(candidateMasks)
  /\ originalImageData # Null      \* line 396: otherwise the handler returns at once
  /\ LET c == Cur
         indices == maskToIndices(candidateMasks[candidateIndex + 1])
         updated == RecolorStep(c, c.baseImageData, indices, c.selectedColor)
         painted == IF c.baseImageData # Null
                    THEN [ c EXCEPT !.baseImageData = updated,
                                    !.canvas = applyLighting(updated, c.lighting) ]
                    ELSE c
         newWall == [ id |-> c.surfaceCounter, pixels |-> indices, color |-> c.selectedColor,
                      enabled |-> TRUE, groupId |-> 0 ]
         walled == [ painted EXCEPT !.surfaceCounter = c.surfaceCounter + 1,
                                    !.walls = Append(c.walls, newWall) ]
         saved == saveToHistory(c, walled, IF c.baseImageData # Null THEN updated ELSE Null)
     IN Set(Render([ saved EXCEPT !.status = "Ready" ]))
  /\ Ghost("apply")
  /\ UNCHANGED << hoverVars, otherVars >>

\* toggleWall(id), lines 620-627.
ToggleWall(id) ==
  /\ Spend("edit")
  /\ id \in WallIds
  /\ LET c == Cur
         flip(w) == IF w.id = id THEN [ w EXCEPT !.enabled = ~w.enabled ] ELSE w
         updated == MapWalls(c.walls, flip)
         base == reapplyWalls(c, updated)
     IN Set(Render(saveToHistory(c, Reapplied(c, [ c EXCEPT !.walls = updated ], base), base)))
  /\ Ghost("toggle")
  /\ UNCHANGED << hoverVars, otherVars >>

\* removeWall(id), lines 629-634.
RemoveWall(id) ==
  /\ Spend("edit")
  /\ id \in WallIds
  /\ LET c == Cur
         updated == SelectSeq(c.walls, LAMBDA w : w.id # id)
         base == reapplyWalls(c, updated)
     IN Set(Render(saveToHistory(c, Reapplied(c, [ c EXCEPT !.walls = updated ], base), base)))
  /\ Ghost("remove")
  /\ UNCHANGED << hoverVars, otherVars >>

\* recolorWall(wall, newColor), lines 496-525, called from a handler with closure c.
recolorWall(c, wall, newColor) ==
  IF c.baseImageData = Null THEN c
  ELSE LET updated == RecolorStep(c, c.baseImageData, wall.pixels, newColor)
           swap(w) == IF w.id = wall.id THEN [ wall EXCEPT !.color = newColor ] ELSE w
           t == [ c EXCEPT !.baseImageData = updated,
                           !.walls = MapWalls(c.walls, swap),
                           !.canvas = applyLighting(updated, c.lighting) ]
       IN saveToHistory(c, t, updated)

GroupColor(groupList, groupId, fallback) ==
  IF \E k \in 1..Len(groupList) : groupList[k].id = groupId
  THEN groupList[CHOOSE k \in 1..Len(groupList) : groupList[k].id = groupId].color
  ELSE fallback

\* addGroup, lines 636-645.
AddGroup(name) ==
  /\ Spend("group")
  /\ ~\E k \in 1..Len(groups) : groups[k].name = name   \* line 638: otherwise it returns
  /\ LET c == Cur
     IN Set([ c EXCEPT !.groups = Append(c.groups, [ id |-> c.groupClock, name |-> name,
                                                    color |-> c.selectedColor ]),
                       !.groupClock = c.groupClock + 1 ])
  /\ Quiet
  /\ UNCHANGED << hoverVars, otherVars >>

\* assignWallToGroup(wallId, groupId), lines 665-691; groupId 0 is the "ungrouped"
\* drop target (null).
AssignWallToGroup(wallId, groupId) ==
  /\ Spend("group")
  /\ wallId \in WallIds
  /\ groupId \in GroupIds \cup { 0 }
  /\ LET c == Cur
         wall == c.walls[CHOOSE k \in 1..Len(c.walls) : c.walls[k].id = wallId]
         newColor == IF groupId # 0 THEN GroupColor(c.groups, groupId, wall.color) ELSE wall.color
         updatedWall == [ wall EXCEPT !.groupId = groupId, !.color = newColor, !.enabled = TRUE ]
         swap(w) == IF w.id = wallId THEN updatedWall ELSE w
         updatedWalls == MapWalls(c.walls, swap)
         base == reapplyWalls(c, updatedWalls)
     IN IF wall.enabled /\ newColor = wall.color
        THEN Set(Render(saveToHistory(c, [ c EXCEPT !.walls = updatedWalls ], Null)))
        ELSE IF wall.enabled
             THEN Set(Render(recolorWall(c, updatedWall, newColor)))
             ELSE Set(Render(saveToHistory(c, Reapplied(c, [ c EXCEPT !.walls = updatedWalls ], base),
                                           base)))
  /\ Ghost("assign")
  /\ UNCHANGED << hoverVars, otherVars >>

\* previewGroupColor(groupId, color), lines 716-718.
PreviewGroupColor(groupId, color) ==
  /\ Spend("group")
  /\ groupId \in GroupIds
  /\ LET paint(g) == IF g.id = groupId THEN [ g EXCEPT !.color = color ] ELSE g
     IN Set([ Cur EXCEPT !.groups = MapWalls(groups, paint) ])
  /\ Quiet
  /\ UNCHANGED << hoverVars, otherVars >>

\* A faulty variant of commitGroupColor: the image is rebuilt from the surfaces of
\* the render the handler was created in, with their colours of before.
CommitGroupColorStaleWalls(groupId, color) ==
  /\ Spend("commit")
  /\ groupId \in GroupIds
  /\ LET c == Cur
         paint(g) == IF g.id = groupId THEN [ g EXCEPT !.color = color ] ELSE g
         tint(w) == IF w.groupId = groupId THEN [ w EXCEPT !.color = color ] ELSE w
         updated == MapWalls(c.walls, tint)
         base == reapplyWalls(c, c.walls)
         t == [ c EXCEPT !.groups = MapWalls(c.groups, paint), !.walls = updated ]
     IN Set(Render(saveToHistory(c, Reapplied(c, t, base), base)))
  /\ Ghost("commit")
  /\ UNCHANGED << hoverVars, otherVars >>

\* commitGroupColor(groupId, color), lines 720-728.
CommitGroupColor(groupId, color) ==
  /\ Spend("commit")
  /\ groupId \in GroupIds
  /\ LET c == Cur
         paint(g) == IF g.id = groupId THEN [ g EXCEPT !.color = color ] ELSE g
         tint(w) == IF w.groupId = groupId THEN [ w EXCEPT !.color = color ] ELSE w
         updated == MapWalls(c.walls, tint)
         base == reapplyWalls(c, updated)
         t == [ c EXCEPT !.groups = MapWalls(c.groups, paint), !.walls = updated ]
     IN Set(Render(saveToHistory(c, Reapplied(c, t, base), base)))
  /\ Ghost("commit")
  /\ UNCHANGED << hoverVars, otherVars >>

-----------------------------------------------------------------------------
(* Undo, redo, reset.  The handlers are modelled as callable in every state, so
   that their own guards, not the disabled buttons, decide what happens. *)

\* A faulty variant of undo: the cursor moves back and the base image stays.
UndoKeepBase ==
  /\ Spend("undo")
  /\ LET c == Cur
         newIndex == c.currentHistoryIndex - 1
     IN IF c.currentHistoryIndex > 0
        THEN Set(Render([ c EXCEPT !.currentHistoryIndex = newIndex ]))
        ELSE Set(c)
  /\ Ghost("undo")
  /\ UNCHANGED << hoverVars, otherVars >>

\* undo, lines 586-601.
Undo ==
  /\ Spend("undo")
  /\ LET c == Cur
         newIndex == c.currentHistoryIndex - 1
         imageData == c.history[newIndex + 1].imageData
     IN IF c.currentHistoryIndex > 0
        THEN Set(Render([ c EXCEPT !.baseImageData = imageData,
                                   !.canvas = applyLighting(imageData, c.lighting),
                                   !.currentHistoryIndex = newIndex ]))
        ELSE Set(c)
  /\ Ghost("undo")
  /\ UNCHANGED << hoverVars, otherVars >>

\* Faulty variants of redo: wrapping to the first entry at the last index; moving
\* the cursor without restoring the image.
RedoWrap ==
  /\ Spend("redo")
  /\ LET c == Cur
         newIndex == IF c.currentHistoryIndex < Len(c.history) - 1
                     THEN c.currentHistoryIndex + 1 ELSE 0
         imageData == c.history[newIndex + 1].imageData
     IN IF Len(c.history) > 0
        THEN Set(Render([ c EXCEPT !.baseImageData = imageData,
                                   !.canvas = applyLighting(imageData, c.lighting),
                                   !.currentHistoryIndex = newIndex ]))
        ELSE Set(c)
  /\ Ghost("redo")
  /\ UNCHANGED << hoverVars, otherVars >>

RedoKeepBase ==
  /\ Spend("redo")
  /\ LET c == Cur
     IN IF c.currentHistoryIndex < Len(c.history) - 1
        THEN Set(Render([ c EXCEPT !.currentHistoryIndex = c.currentHistoryIndex + 1 ]))
        ELSE Set(c)
  /\ Ghost("redo")
  /\ UNCHANGED << hoverVars, otherVars >>

\* redo, lines 603-618.
Redo ==
  /\ Spend("redo")
  /\ LET c == Cur
         newIndex == c.currentHistoryIndex + 1
         imageData == c.history[newIndex + 1].imageData
     IN IF c.currentHistoryIndex < Len(c.history) - 1
        THEN Set(Render([ c EXCEPT !.baseImageData = imageData,
                                   !.canvas = applyLighting(imageData, c.lighting),
                                   !.currentHistoryIndex = newIndex ]))
        ELSE Set(c)
  /\ Ghost("redo")
  /\ UNCHANGED << hoverVars, otherVars >>

\* A faulty variant of reset: the working image is kept as the new base.
ResetFromBase ==
  /\ Spend("reset")
  /\ originalImageData # Null
  /\ LET c == Cur
         base == c.baseImageData
     IN Set(Render([ c EXCEPT !.intrinsicRef = Null,
                              !.history = << [ imageData |-> base, timestamp |-> c.now ] >>,
                              !.now = c.now + 1,
                              !.currentHistoryIndex = 0,
                              !.walls = << >>,
                              !.groups = << >> ]))
  /\ Ghost("reset")
  /\ UNCHANGED << hoverVars, otherVars >>

\* A faulty variant of reset: the groups are emptied and the surfaces are kept.
ResetKeepWalls ==
  /\ Spend("reset")
  /\ originalImageData # Null
  /\ LET c == Cur
         base == c.originalImageData
     IN Set(Render([ c EXCEPT !.baseImageData = base,
                              !.intrinsicRef = Null,
                              !.history = << [ imageData |-> base, timestamp |-> c.now ] >>,
                              !.now = c.now + 1,
                              !.currentHistoryIndex = 0,
                              !.groups = << >>,
                              !.canvas = applyLighting(base, c.lighting) ]))
  /\ Ghost("reset")
  /\ UNCHANGED << hoverVars, otherVars >>

\* reset, lines 730-750.
Reset ==
  /\ Spend("reset")
  /\ originalImageData # Null      \* line 732: otherwise the handler returns at once
  /\ LET c == Cur
         base == c.originalImageData
     IN Set(Render([ c EXCEPT !.baseImageData = base,
                              !.intrinsicRef = Null,
                              !.history = << [ imageData |-> base, timestamp |-> c.now ] >>,
                              !.now = c.now + 1,
                              !.currentHistoryIndex = 0,
                              !.walls = << >>,
                              !.groups = << >>,
                              !.canvas = applyLighting(base, c.lighting) ]))
  /\ Ghost("reset")
  /\ UNCHANGED << hoverVars, otherVars >>

-----------------------------------------------------------------------------
(* The recolor steps as pure functions: applyRetinexRecolor and
   applyReflectanceColor called on an image, step after step *)

MaxRecolorSteps == 2

MaskInputs ==
  { DenseMask(LowHalf), DenseMask(Inner), DenseMask(OddPixels), DenseMask({ 1 }), DenseMask({}) }

IdleRc ==
  [ pre |-> Null, decomposition |-> Null, before |-> Null, after |-> Null,
    indices |-> << >>, color |-> White, strategy |-> "none", steps |-> 0 ]

InitRecolor ==
  /\ InitApp(NoBudget)
  /\ IdleHarness
  /\ \E img \in RawImages, wb \in WhiteBalances :
       LET balanced == applyWhiteBalance(img, wb)
       IN \E d \in Decompositions(balanced) :
            rc = [ IdleRc EXCEPT !.pre = << ComputeRetinex(balanced) >>,
                                 !.decomposition = << d >>,
                                 !.before = balanced,
                                 !.after = balanced ]

RecolorCall(strategy, mask, color, out) ==
  /\ rc.steps < MaxRecolorSteps
  /\ rc' = [ rc EXCEPT !.before = rc.after, !.after = out, !.indices = maskToIndices(mask),
                       !.color = color, !.strategy = strategy, !.steps = rc.steps + 1 ]
  /\ UNCHANGED << appVars, mem, engineObject, labVars >>

RecolorRetinex(mask, color) ==
  RecolorCall("retinex", mask, color,
              applyRetinexRecolor(rc.after, maskToIndices(mask), color, rc.pre[1]))

RecolorReflectance(mask, color) ==
  RecolorCall("intrinsic", mask, color,
              applyReflectanceColor(rc.after, rc.decomposition[1], maskToIndices(mask), color))

NextRecolor ==
  \/ \E mask \in MaskInputs, color \in Colors : RecolorRetinex(mask, color)
  \/ \E mask \in MaskInputs, color \in Colors : RecolorReflectance(mask, color)

SpecRecolor == InitRecolor /\ [][NextRecolor]_vars

-----------------------------------------------------------------------------
(* The application *)

MaxOps == 4

\* The runs explored: each profile lets the environment do a few things of a few
\* kinds, "ops" of them in all.
Painting ==
  [ NoBudget EXCEPT !.load = 1, !.click = 1, !.select = 1, !.apply = 1, !.edit = 1,
                    !.color = 1, !.props = 1, !.ops = MaxOps + 1 ]
Lifecycle ==
  [ NoBudget EXCEPT !.load = 2, !.balance = 1, !.props = 1, !.click = 1, !.apply = 1,
                    !.fault = 1, !.ops = MaxOps ]
Intrinsic ==
  [ NoBudget EXCEPT !.algorithm = 1, !.props = 1, !.load = 1, !.click = 1, !.apply = 1,
                    !.fault = 1, !.ops = MaxOps ]
Grouping ==
  [ NoBudget EXCEPT !.load = 1, !.click = 1, !.apply = 1, !.group = 2, !.commit = 1,
                    !.ops = MaxOps + 1 ]
TimeTravel ==
  [ NoBudget EXCEPT !.load = 1, !.click = 1, !.apply = 1, !.lighting = 1, !.props = 1,
                    !.undo = 1, !.redo = 1, !.reset = 1, !.travel = 2, !.ops = MaxOps + 1 ]

AppBudgets == { Painting, Lifecycle, Intrinsic, Grouping, TimeTravel }

Init == \E b \in AppBudgets : InitApp(b) /\ rc = IdleRc /\ IdleHarness

Next ==
  \/ \E img \in RawImages : ImageOnload(img)
  \/ \E wb \in WhiteBalances : SetWhiteBalance(wb)
  \/ \E alg \in { "retinex", "intrinsic" } : SetAlgorithm(alg)
  \/ \E mode \in LightingModes : SetLighting(mode)
  \/ \E color \in Colors : SetSelectedColor(color)
  \/ \E k \in 1..Len(pending), ok \in BOOLEAN : SamInitDone(k, ok)
  \/ \E k \in 1..Len(pending), ok \in BOOLEAN : NiidInitDone(k, ok)
  \/ \E k \in 1..Len(pending), ok \in BOOLEAN : DecomposeDone(k, ok)
  \/ \E k \in 1..Len(pending), ok \in BOOLEAN : EmbeddingDone(k, ok)
  \/ TimerFire
  \/ \E click \in ClickInputs : HandleMouseDown(click)
  \/ \E k \in 1..Len(maskRequests), ok \in BOOLEAN, masks \in CandidateLists :
       MaskRequestDone(k, ok, masks)
  \/ NextCandidate
  \/ ClearSelections
  \/ ApplyCandidate
  \/ \E id \in WallIds : ToggleWall(id)
  \/ \E id \in WallIds : RemoveWall(id)
  \/ \E name \in GroupNames : AddGroup(name)
  \/ \E wallId \in WallIds, groupId \in GroupIds \cup { 0 } : AssignWallToGroup(wallId, groupId)
  \/ \E groupId \in GroupIds, color \in Colors : PreviewGroupColor(groupId, color)
  \/ \E groupId \in GroupIds, color \in Colors : CommitGroupColor(groupId, color)
  \/ Undo
  \/ Redo
  \/ Reset

Spec == Init /\ [][Next]_vars

-----------------------------------------------------------------------------
(* The history under a long run of edits *)

MaxEdits == 22

HistBudget ==
  [ NoBudget EXCEPT !.load = 1, !.click = 1, !.apply = 1, !.edit = MaxEdits,
                    !.undo = 1, !.redo = 1, !.reset = 1, !.travel = 3,
                    !.ops = MaxEdits + 5 ]

InitHist == InitApp(HistBudget) /\ rc = IdleRc /\ IdleHarness

NextHist ==
  \/ \E img \in { ImageA } : ImageOnload(img)
  \/ \E k \in 1..Len(pending) : SamInitDone(k, TRUE)
  \/ \E k \in 1..Len(pending) : EmbeddingDone(k, TRUE)
  \/ TimerFire
  \/ \E click \in ClickInputs : HandleMouseDown(click)
  \/ \E k \in 1..Len(maskRequests) : MaskRequestDone(k, TRUE, << DenseMask(LowHalf) >>)
  \/ ApplyCandidate
  \/ \E id \in WallIds : ToggleWall(id)
  \/ \E id \in WallIds : RemoveWall(id)
  \/ Undo
  \/ Redo
  \/ Reset

SpecHist == InitHist /\ [][NextHist]_vars

-----------------------------------------------------------------------------
(* Surfaces painted over one image, then disabled, removed, grouped *)

MaxSurfaceOps == 7

Overlapping ==
  [ NoBudget EXCEPT !.load = 1, !.click = 1, !.select = 1, !.color = 1, !.props = 1,
                    !.apply = 2, !.edit = 2, !.ops = MaxSurfaceOps ]
Grouped ==
  [ NoBudget EXCEPT !.load = 1, !.click = 1, !.apply = 1, !.group = 2, !.commit = 1,
                    !.edit = 1, !.ops = MaxSurfaceOps ]

SurfaceBudgets == { Overlapping, Grouped }

InitSurfaces == \E b \in SurfaceBudgets : InitApp(b) /\ rc = IdleRc /\ IdleHarness

NextSurfaces ==
  \/ \E img \in RawImages : ImageOnload(img)
  \/ \E k \in 1..Len(pending) : SamInitDone(k, TRUE)
  \/ \E k \in 1..Len(pending) : EmbeddingDone(k, TRUE)
  \/ TimerFire
  \/ \E click \in ClickInputs : HandleMouseDown(click)
  \/ \E k \in 1..Len(maskRequests), masks \in CandidateLists : MaskRequestDone(k, TRUE, masks)
  \/ NextCandidate
  \/ \E color \in Colors : SetSelectedColor(color)
  \/ ApplyCandidate
  \/ \E id \in WallIds : ToggleWall(id)
  \/ \E id \in WallIds : RemoveWall(id)
  \/ \E name \in GroupNames : AddGroup(name)
  \/ \E wallId \in WallIds, groupId \in GroupIds \cup { 0 } : AssignWallToGroup(wallId, groupId)
  \/ \E groupId \in GroupIds, color \in Colors : CommitGroupColor(groupId, color)

SpecSurfaces == InitSurfaces /\ [][NextSurfaces]_vars

-----------------------------------------------------------------------------
(* The claims *)

Range(seq) == { seq[k] : k \in 1..Len(seq) }

\* C1: the history never holds more than 20 entries, and a push onto a full
\* history whose cursor is at the end leaves it with 20 entries, the new one
\* among them.
C1_HistoryBounded ==
  /\ Len(history) <= HISTORY_LIMIT
  /\ (/\ lastOp \in PushOps
      /\ Len(pre.history) = HISTORY_LIMIT
      /\ pre.index = HISTORY_LIMIT - 1)
     => Len(history) = HISTORY_LIMIT

\* A push onto a full history has happened.
C1_Witness ==
  /\ lastOp \in PushOps
  /\ Len(pre.history) = HISTORY_LIMIT /\ pre.index = HISTORY_LIMIT - 1
  /\ history # pre.history
  /\ Len(history) = HISTORY_LIMIT

\* C2: whenever the history is non-empty the cursor is an index of it.
C2_CursorInRange ==
  Len(history) > 0 => (0 <= currentHistoryIndex /\ currentHistoryIndex < Len(history))

\* More than 20 pushes in a row have happened, so the last ones evicted.
C2_Witness ==
  /\ Len(pushLog) > HISTORY_LIMIT
  /\ currentHistoryIndex = HISTORY_LIMIT - 1

\* A step of a handler that pushed a snapshot.
PushStep == lastOp' \in PushOps /\ history' # history

\* C3: a push keeps the entries up to the cursor (less the oldest when 20 were
\* kept), drops those past it and appends the new snapshot, which holds the base
\* image; the cursor is then the last index, and a redo straight after a push
\* changes nothing.
C3_PushTruncates ==
  [][/\ PushStep =>
          LET kept == SubSeq(history, 1, currentHistoryIndex + 1)
              last == Len(history')
          IN /\ SubSeq(history', 1, last - 1)
                  = (IF Len(kept) = HISTORY_LIMIT THEN Tail(kept) ELSE kept)
             /\ currentHistoryIndex' = last - 1
             /\ history'[last].timestamp = now
             /\ baseImageData' # Null => history'[last].imageData = baseImageData'
     /\ (lastOp \in PushOps /\ pre.history # history /\ budget'.redo < budget.redo)
          => UNCHANGED << history, currentHistoryIndex, baseImageData >>
    ]_vars

\* A push made after an undo has dropped the entry that was past the cursor.
C3_Witness ==
  /\ lastOp \in PushOps
  /\ history # pre.history
  /\ pre.index >= 0 /\ pre.index < Len(pre.history) - 1
  /\ Len(history) = pre.index + 2

\* C4: after more than 20 pushes in a row the history is exactly the last 20
\* snapshots pushed, in push order; undo leaves the history as it is and takes
\* the base image from it, so nothing older comes back.
C4_OldestEvicted ==
  [][/\ Len(pushLog') > HISTORY_LIMIT =>
          history' = SubSeq(pushLog', Len(pushLog') - HISTORY_LIMIT + 1, Len(pushLog'))
     /\ budget'.undo < budget.undo =>
          /\ history' = history
          /\ \/ baseImageData' = baseImageData
             \/ \E k \in 1..Len(history) : baseImageData' = history[k].imageData
    ]_vars

\* After more than 20 pushes in a row, an undo has moved the cursor back.
C4_Witness ==
  /\ Len(pushLog) > HISTORY_LIMIT
  /\ lastOp = "undo"
  /\ currentHistoryIndex = HISTORY_LIMIT - 2

\* C5: undo with the cursor at 0 or without history, and redo with the cursor at
\* the last index, leave the history, the cursor and the base image as they were.
C5_BoundaryNoOp ==
  [][/\ (budget'.undo < budget.undo /\ currentHistoryIndex <= 0)
          => UNCHANGED << history, currentHistoryIndex, baseImageData >>
     /\ (budget'.redo < budget.redo /\ currentHistoryIndex >= Len(history) - 1)
          => UNCHANGED << history, currentHistoryIndex, baseImageData >>
    ]_vars

\* Redo was called with the cursor at the last of several entries.
C5_Witness ==
  /\ lastOp = "redo"
  /\ Len(pre.history) > 1
  /\ pre.index = Len(pre.history) - 1
  /\ currentHistoryIndex = pre.index

\* C6: a redo that follows an undo made at a cursor above 0 puts the cursor back
\* where it was, leaves the history as it was before the pair, and makes the base
\* image the snapshot the cursor designated before the pair, pixel for pixel the
\* base image of that moment.
C6_UndoRedo ==
  [][(lastOp = "undo" /\ pre.index > 0 /\ budget'.redo < budget.redo) =>
       /\ currentHistoryIndex' = pre.index
       /\ history' = pre.history
       /\ baseImageData' = pre.history[pre.index + 1].imageData
       /\ pre.base # Null => baseImageData' = pre.base
    ]_vars

\* A redo has brought back a snapshot that differs from the one undo had shown.
C6_Witness ==
  /\ lastOp = "redo"
  /\ currentHistoryIndex = pre.index + 1
  /\ currentHistoryIndex > 0
  /\ pre.base # Null /\ baseImageData # pre.base

\* C7: a reset leaves no surface and no group, makes the base image the pristine
\* white-balanced image, and makes the history that one image with the cursor at 0.
C7_Reset ==
  [][budget'.reset < budget.reset =>
       /\ walls' = << >>
       /\ groups' = << >>
       /\ originalImageData' = applyWhiteBalance(rawImageData, whiteBalance)
       /\ baseImageData' = originalImageData'
       /\ Len(history') = 1
       /\ history'[1].imageData = originalImageData'
       /\ currentHistoryIndex' = 0
    ]_vars

\* A reset has discarded a surface and a history of several entries.
C7_Witness ==
  /\ lastOp = "reset"
  /\ Len(pre.history) > 1
  /\ pre.base # originalImageData
  /\ walls = << >> /\ baseImageData = originalImageData

\* A step in which process() committed an image (lines 228-232).
ProcessOps == { "load", "balance", "algorithm", "samInit", "niidInit", "decompose" }
ProcessCommitted == lastOp' \in ProcessOps /\ now' # now

\* What process() re-initialises on committing an image.
C8_Reinitialised ==
  [][ProcessCommitted =>
       /\ walls' = << >>
       /\ groups' = << >>
       /\ retinexRef' = << ComputeRetinex(baseImageData') >>
       /\ history' = << [ imageData |-> baseImageData', timestamp |-> now ] >>
       /\ currentHistoryIndex' = 0
    ]_vars

\* C8: once an image has been processed all per-image state is that of the new
\* image, and no candidate mask made from another image is left to apply.
C8_NothingStale ==
  [][ProcessCommitted =>
       /\ walls' = << >>
       /\ groups' = << >>
       /\ retinexRef' = << ComputeRetinex(baseImageData') >>
       /\ history' = << [ imageData |-> baseImageData', timestamp |-> now ] >>
       /\ currentHistoryIndex' = 0
       /\ (candidateMasks' = << >> \/ candidateSource' = originalImageData')
    ]_vars

\* C9: a recolor step leaves every byte outside the masked pixels, and every
\* alpha byte, as it was.
C9_MaskFrame ==
  rc.steps > 0 =>
    /\ Len(rc.after) = Len(rc.before)
    /\ \A j \in 1..Len(rc.before) :
         ((j - 1) % 4 = 3 \/ ((j - 1) \div 4) \notin Range(rc.indices))
           => rc.after[j] = rc.before[j]

\* A Retinex recolor has changed pixels of a mask that covers part of the image.
C9_Witness ==
  /\ rc.steps > 0
  /\ rc.strategy = "retinex"
  /\ Len(rc.indices) > 0 /\ Len(rc.indices) < NPix
  /\ rc.after # rc.before

\* The enabled surfaces of wallList that contain pixel i, by position.
Covering(wallList, i) ==
  { k \in 1..Len(wallList) : wallList[k].enabled /\ i \in Range(wallList[k].pixels) }

Last(S) == CHOOSE k \in S : \A m \in S : m <= k

\* The image in which every pixel has the recolor value of the last enabled
\* surface containing it, and the pristine value without one.
LastWins ==
  [ j \in 1..Len(originalImageData) |->
      LET on == Covering(walls, (j - 1) \div 4)
      IN IF on = { } THEN originalImageData[j]
         ELSE RecolorStep(Cur, originalImageData, walls[Last(on)].pixels,
                          walls[Last(on)].color)[j] ]

\* C10: after toggleWall, removeWall or commitGroupColor, which rebuild the image
\* with reapplyWalls, every pixel has the recolor value of the last enabled
\* surface in array order that contains it, or its pristine value.
C10_LastEnabledWins ==
  (lastOp \in { "toggle", "remove", "commit" } /\ originalImageData # Null)
    => baseImageData = LastWins

\* Of two overlapping surfaces the later one was disabled: the earlier one shows.
C10_Witness ==
  /\ lastOp = "toggle"
  /\ Len(walls) = 2
  /\ walls[1].enabled /\ ~walls[2].enabled
  /\ Range(walls[1].pixels) \cap Range(walls[2].pixels) # { }
  /\ Range(walls[2].pixels) \ Range(walls[1].pixels) # { }
  /\ walls[1].color # walls[2].color
  /\ baseImageData # originalImageData

-----------------------------------------------------------------------------
(* Surfaces gathered into a group whose colour is then changed *)

MaxGroupOps == 9

Cascade ==
  [ NoBudget EXCEPT !.load = 1, !.click = 1, !.select = 1, !.apply = 2, !.group = 3,
                    !.edit = 1, !.commit = 1, !.ops = MaxGroupOps ]

InitGroups == InitApp(Cascade) /\ rc = IdleRc /\ IdleHarness

NextGroups ==
  \/ \E img \in { ImageA } : ImageOnload(img)
  \/ \E k \in 1..Len(pending) : SamInitDone(k, TRUE)
  \/ \E k \in 1..Len(pending) : EmbeddingDone(k, TRUE)
  \/ TimerFire
  \/ \E click \in { p \in ClickInputs : p.label = 1 } : HandleMouseDown(click)
  \/ \E k \in 1..Len(maskRequests), masks \in CandidateLists : MaskRequestDone(k, TRUE, masks)
  \/ NextCandidate
  \/ ApplyCandidate
  \/ \E id \in WallIds : ToggleWall(id)
  \/ \E name \in GroupNames : AddGroup(name)
  \/ \E wallId \in WallIds, groupId \in GroupIds \cup { 0 } : AssignWallToGroup(wallId, groupId)
  \/ \E groupId \in GroupIds, color \in Colors : CommitGroupColor(groupId, color)

SpecGroups == InitGroups /\ [][NextGroups]_vars

\* A step of commitGroupColor.
CommitStep == lastOp' = "commit" /\ budget'.commit < budget.commit

\* C11: a commit of colour c to a group gives colour c to the group and to every
\* surface of the group, leaves every other surface as it was, and makes the base
\* image the one rebuilt from the pristine image with the enabled surfaces at
\* their colours after the commit.
C11_GroupCascade ==
  [][CommitStep =>
       \E g \in GroupIds, c \in Colors :
         /\ Len(groups') = Len(groups)
         /\ \A k \in 1..Len(groups) :
              groups'[k] = IF groups[k].id = g THEN [ groups[k] EXCEPT !.color = c ]
                           ELSE groups[k]
         /\ Len(walls') = Len(walls)
         /\ \A k \in 1..Len(walls) :
              walls'[k] = IF walls[k].groupId = g THEN [ walls[k] EXCEPT !.color = c ]
                          ELSE walls[k]
         /\ originalImageData # Null =>
              /\ originalImageData' = originalImageData
              /\ baseImageData' = ReapplyLoop(Cur, originalImageData, walls', 1)
    ]_vars

\* Two surfaces of one group took the colour committed to the group, and the
\* image changed with them.
C11_Witness ==
  /\ lastOp = "commit"
  /\ Len(walls) = 2 /\ Len(groups) > 0
  /\ \E k \in 1..Len(groups) :
       /\ walls[1].groupId = groups[k].id /\ walls[2].groupId = groups[k].id
       /\ walls[1].color = groups[k].color /\ walls[2].color = groups[k].color
       /\ groups[k].color \in Colors
  /\ walls[1].enabled /\ walls[2].enabled
  /\ walls[1].pixels # walls[2].pixels
  /\ baseImageData # pre.base

-----------------------------------------------------------------------------
(* Buffers.  The handlers once more, with every ImageData an object of a heap:
   a slot (originalImageData, baseImageData, a history entry) holds the identity
   of a buffer, `new ImageData(new Uint8ClampedArray(x.data), ...)` allocates one,
   and the recolor functions write into the buffer they are given. *)

MaxBufferOps == 5

NoBuffer == 0

BufferBudget ==
  [ NoBudget EXCEPT !.load = 1, !.apply = 2, !.edit = 1, !.group = 2, !.commit = 1,
                    !.undo = 1, !.redo = 1, !.reset = 1, !.travel = 2, !.lighting = 1,
                    !.props = 1, !.hover = 1, !.ops = MaxBufferOps ]

InitBuffers ==
  /\ InitApp(BufferBudget)
  /\ rc = IdleRc
  /\ engine = IdleEngine /\ engineCalls = << >> /\ engineLog = << >>
  /\ IdleLab
  /\ mem = [ on |-> TRUE, heap |-> << >>,
             originalImageData |-> NoBuffer, baseImageData |-> NoBuffer,
             history |-> << >>, currentHistoryIndex |-> -1,
             walls |-> << >>, groups |-> << >>, surfaceCounter |-> 1, groupClock |-> 1,
             lighting |-> "normal", canvas |-> BlankCanvas,
             algorithm |-> "retinex", retinexRef |-> Null, intrinsicRef |-> Null,
             op |-> "mount", preBase |-> NoBuffer, aliased |-> FALSE ]

\* A buffer with the given content joins the heap.
Alloc(m, data) == [ m |-> [ m EXCEPT !.heap = Append(m.heap, data) ], id |-> Len(m.heap) + 1 ]

\* A faulty variant of the copy below: the buffer itself is handed on.
NewImageDataShared(m, id) == [ m |-> m, id |-> id ]

\* new ImageData(new Uint8ClampedArray(x.data), x.width, x.height): a copy of x.
NewImageData(m, id) == Alloc(m, m.heap[id])

\* applyRetinexRecolor / applyReflectanceColor on buffer id: `data[p] = ...`.
RecolorInPlace(c, m, id, indices, color) ==
  [ m EXCEPT !.heap[id] = RecolorStep(c, m.heap[id], indices, color) ]

\* The lighting effect (752-761) after the render that follows a handler.
RenderBuffers(m) ==
  IF m.baseImageData # NoBuffer
  THEN [ m EXCEPT !.canvas = applyLighting(m.heap[m.baseImageData], m.lighting) ]
  ELSE m

\* saveToHistory(img), lines 558-584; img = NoBuffer for a call without argument.
saveToHistoryBuffers(c, t, img) ==
  LET source == IF img # NoBuffer THEN img ELSE c.baseImageData
      n == IF source # NoBuffer THEN NewImageData(t, source) ELSE Alloc(t, t.canvas)
      pushed == Append(SubSeq(c.history, 1, Min(c.currentHistoryIndex + 1, Len(c.history))),
                       [ imageData |-> n.id ])
      newHistory == IF Len(pushed) > HISTORY_LIMIT THEN Tail(pushed) ELSE pushed
  IN [ n.m EXCEPT !.history = newHistory, !.currentHistoryIndex = Len(newHistory) - 1 ]

\* The loop of reapplyWalls, lines 537-549, writing into buffer id.
RECURSIVE ReapplyLoopBuffers(_, _, _, _, _)
ReapplyLoopBuffers(c, m, id, wallList, k) ==
  IF k > Len(wallList) THEN m
  ELSE ReapplyLoopBuffers(c,
                          IF wallList[k].enabled
                          THEN RecolorInPlace(c, m, id, wallList[k].pixels, wallList[k].color)
                          ELSE m,
                          id, wallList, k + 1)

\* reapplyWalls(wallList), lines 527-556: the heap after it and the buffer it
\* returns (NoBuffer for null).
reapplyWallsBuffers(c, t, wallList) ==
  IF c.originalImageData = NoBuffer THEN [ m |-> t, id |-> NoBuffer ]
  ELSE LET n == NewImageData(t, c.originalImageData)
           painted == ReapplyLoopBuffers(c, n.m, n.id, wallList, 1)
       IN [ m |-> [ painted EXCEPT !.baseImageData = n.id,
                                   !.canvas = applyLighting(painted.heap[n.id], c.lighting) ],
            id |-> n.id ]

\* The slots a handler must leave as they are: the pristine image and the history.
Stored(m) ==
  ({ m.originalImageData } \cup { m.history[k].imageData : k \in 1..Len(m.history) })
    \ { NoBuffer }

\* The step of a handler `op` of kind `key` that takes the buffers from mem to m.
BufferStep(key, op, m) ==
  /\ mem.on
  /\ Spend(key)
  /\ mem' = [ RenderBuffers(m) EXCEPT !.op = op, !.preBase = mem.baseImageData,
                                      !.aliased = mem.baseImageData \in Stored(mem) ]
  /\ UNCHANGED << propVars, imageVars, historyVars, surfaceVars, selectionVars, engineVars,
                  asyncVars, ghostVars, hoverVars, now, groupClock, rc, engineObject,
                  labVars, boxVars >>

\* process(), lines 162-254, with the Retinex strategy and no engine.
ProcessBuffers(img) ==
  LET balancedData == applyWhiteBalance(img, NeutralBalance)
      n == Alloc(mem, balancedData)
  IN BufferStep("load", "load",
       [ n.m EXCEPT !.originalImageData = n.id,
                    !.retinexRef = << RetinexOf(balancedData) >>,
                    !.baseImageData = n.id,
                    !.history = << [ imageData |-> n.id ] >>,
                    !.currentHistoryIndex = 0,
                    !.walls = << >>,
                    !.groups = << >> ])

\* applyCandidate(mask), lines 394-442, with the page's colour.
ApplyCandidateBuffers(mask, color) ==
  /\ mem.on /\ mem.originalImageData # NoBuffer
  /\ LET c == mem
         indices == maskToIndices(mask)
         n == NewImageData(c, c.baseImageData)
         painted == IF c.baseImageData # NoBuffer
                    THEN [ RecolorInPlace(c, n.m, n.id, indices, color)
                             EXCEPT !.baseImageData = n.id ]
                    ELSE c
         newWall == [ id |-> c.surfaceCounter, pixels |-> indices, color |-> color,
                      enabled |-> TRUE, groupId |-> 0 ]
         walled == [ painted EXCEPT !.surfaceCounter = c.surfaceCounter + 1,
                                    !.walls = Append(c.walls, newWall) ]
     IN BufferStep("apply", "apply",
          saveToHistoryBuffers(c, walled,
                               IF c.baseImageData # NoBuffer THEN n.id ELSE NoBuffer))

BufferWallIds == IF mem.on THEN { mem.walls[k].id : k \in 1..Len(mem.walls) } ELSE { }
BufferGroupIds == IF mem.on THEN { mem.groups[k].id : k \in 1..Len(mem.groups) } ELSE { }

\* toggleWall(id), lines 620-627.
ToggleWallBuffers(id) ==
  /\ id \in BufferWallIds
  /\ LET c == mem
         flip(w) == IF w.id = id THEN [ w EXCEPT !.enabled = ~w.enabled ] ELSE w
         updated == MapWalls(c.walls, flip)
         r == reapplyWallsBuffers(c, [ c EXCEPT !.walls = updated ], updated)
     IN BufferStep("edit", "toggle", saveToHistoryBuffers(c, r.m, r.id))

\* removeWall(id), lines 629-634.
RemoveWallBuffers(id) ==
  /\ id \in BufferWallIds
  /\ LET c == mem
         updated == SelectSeq(c.walls, LAMBDA w : w.id # id)
         r == reapplyWallsBuffers(c, [ c EXCEPT !.walls = updated ], updated)
     IN BufferStep("edit", "remove", saveToHistoryBuffers(c, r.m, r.id))

\* recolorWall(wall, newColor), lines 496-525.
recolorWallBuffers(c, wall, newColor) ==
  IF c.baseImageData = NoBuffer THEN c
  ELSE LET n == NewImageData(c, c.baseImageData)
           swap(w) == IF w.id = wall.id THEN [ wall EXCEPT !.color = newColor ] ELSE w
           t == [ RecolorInPlace(c, n.m, n.id, wall.pixels, newColor)
                    EXCEPT !.baseImageData = n.id, !.walls = MapWalls(c.walls, swap) ]
       IN saveToHistoryBuffers(c, t, n.id)

\* addGroup, lines 636-645.
AddGroupBuffers(name, color) ==
  /\ mem.on
  /\ ~\E k \in 1..Len(mem.groups) : mem.groups[k].name = name
  /\ BufferStep("group", "addGroup",
       [ mem EXCEPT !.groups = Append(mem.groups, [ id |-> mem.groupClock, name |-> name,
                                                    color |-> color ]),
                    !.groupClock = mem.groupClock + 1 ])

\* assignWallToGroup(wallId, groupId), lines 665-691.
AssignWallToGroupBuffers(wallId, groupId) ==
  /\ wallId \in BufferWallIds
  /\ groupId \in BufferGroupIds \cup { 0 }
  /\ LET c == mem
         wall == c.walls[CHOOSE k \in 1..Len(c.walls) : c.walls[k].id = wallId]
         newColor == IF groupId # 0 THEN GroupColor(c.groups, groupId, wall.color) ELSE wall.color
         updatedWall == [ wall EXCEPT !.groupId = groupId, !.color = newColor, !.enabled = TRUE ]
         swap(w) == IF w.id = wallId THEN updatedWall ELSE w
         updatedWalls == MapWalls(c.walls, swap)
         r == reapplyWallsBuffers(c, [ c EXCEPT !.walls = updatedWalls ], updatedWalls)
     IN BufferStep("group", "assign",
          IF wall.enabled /\ newColor = wall.color
          THEN saveToHistoryBuffers(c, [ c EXCEPT !.walls = updatedWalls ], NoBuffer)
          ELSE IF wall.enabled THEN recolorWallBuffers(c, updatedWall, newColor)
               ELSE saveToHistoryBuffers(c, r.m, r.id))

\* commitGroupColor(groupId, color), lines 720-728.
CommitGroupColorBuffers(groupId, color) ==
  /\ groupId \in BufferGroupIds
  /\ LET c == mem
         paint(g) == IF g.id = groupId THEN [ g EXCEPT !.color = color ] ELSE g
         tint(w) == IF w.groupId = groupId THEN [ w EXCEPT !.color = color ] ELSE w
         updated == MapWalls(c.walls, tint)
         r == reapplyWallsBuffers(c, [ c EXCEPT !.groups = MapWalls(c.groups, paint),
                                                !.walls = updated ], updated)
     IN BufferStep("commit", "commit", saveToHistoryBuffers(c, r.m, r.id))

\* undo, lines 586-601: the base slot takes the entry's buffer itself.
UndoBuffers ==
  /\ mem.on
  /\ BufferStep("undo", "undo",
       IF mem.currentHistoryIndex > 0
       THEN [ mem EXCEPT !.baseImageData = mem.history[mem.currentHistoryIndex].imageData,
                         !.currentHistoryIndex = mem.currentHistoryIndex - 1 ]
       ELSE mem)

\* redo, lines 603-618.
RedoBuffers ==
  /\ mem.on
  /\ BufferStep("redo", "redo",
       IF mem.currentHistoryIndex < Len(mem.history) - 1
       THEN [ mem EXCEPT !.baseImageData = mem.history[mem.currentHistoryIndex + 2].imageData,
                         !.currentHistoryIndex = mem.currentHistoryIndex + 1 ]
       ELSE mem)

\* reset, lines 730-750: base and the one history entry are one copy of the
\* pristine buffer.
ResetBuffers ==
  /\ mem.on /\ mem.originalImageData # NoBuffer
  /\ LET n == NewImageData(mem, mem.originalImageData)
     IN BufferStep("reset", "reset",
          [ n.m EXCEPT !.baseImageData = n.id,
                       !.intrinsicRef = Null,
                       !.history = << [ imageData |-> n.id ] >>,
                       !.currentHistoryIndex = 0,
                       !.walls = << >>,
                       !.groups = << >> ])

\* The lighting selector; the lighting effect repaints the canvas from the base.
SetLightingBuffers(mode) ==
  /\ mem.on /\ mode # mem.lighting
  /\ BufferStep("lighting", "lighting", [ mem EXCEPT !.lighting = mode ])

\* A hover preview: drawCanvas(mask), lines 258-313, paints the entry at the cursor
\* and lays the mask over what getImageData returns, a copy of the canvas.
HoverPreviewBuffers(mask) ==
  /\ mem.on
  /\ mem.currentHistoryIndex >= 0 /\ mem.currentHistoryIndex < Len(mem.history)
  /\ Spend("hover")
  /\ mem' = [ mem EXCEPT
                !.canvas = Overlay(applyLighting(
                                     mem.heap[mem.history[mem.currentHistoryIndex + 1].imageData],
                                     mem.lighting), mask),
                !.op = "hover", !.preBase = mem.baseImageData,
                !.aliased = mem.baseImageData \in Stored(mem) ]
  /\ UNCHANGED << propVars, imageVars, historyVars, surfaceVars, selectionVars, engineVars,
                  asyncVars, ghostVars, hoverVars, now, groupClock, rc, engineObject,
                  labVars, boxVars >>

BufferMasks == { DenseMask(LowHalf), DenseMask(OddPixels) }

NextBuffers ==
  \/ \E img \in { ImageA } : ProcessBuffers(img)
  \/ \E mask \in BufferMasks, color \in Colors : ApplyCandidateBuffers(mask, color)
  \/ \E id \in BufferWallIds : ToggleWallBuffers(id)
  \/ \E id \in BufferWallIds : RemoveWallBuffers(id)
  \/ \E name \in GroupNames, color \in Colors : AddGroupBuffers(name, color)
  \/ \E wallId \in BufferWallIds, groupId \in BufferGroupIds \cup { 0 } :
       AssignWallToGroupBuffers(wallId, groupId)
  \/ \E groupId \in BufferGroupIds, color \in Colors : CommitGroupColorBuffers(groupId, color)
  \/ UndoBuffers
  \/ RedoBuffers
  \/ ResetBuffers
  \/ \E mode \in LightingModes : SetLightingBuffers(mode)
  \/ \E mask \in BufferMasks : HoverPreviewBuffers(mask)

SpecBuffers == InitBuffers /\ [][NextBuffers]_vars

\* C12: no step of a handler changes the content of the pristine image's buffer
\* or of a buffer a history entry holds, and none removes a buffer.
C12_StoredImagesKept ==
  [][mem.on =>
       /\ Len(mem'.heap) >= Len(mem.heap)
       /\ \A id \in Stored(mem) : mem'.heap[id] = mem.heap[id]
    ]_vars

\* A surface was painted while the base slot held the buffer of a history entry
\* or of the pristine image, and the new base image differs from that buffer.
C12_Witness ==
  /\ mem.on
  /\ mem.op \in { "apply", "assign" }
  /\ mem.aliased
  /\ mem.preBase \in Stored(mem)
  /\ mem.heap[mem.baseImageData] # mem.heap[mem.preBase]

-----------------------------------------------------------------------------
(* Lighting *)

\* Every image the recolor functions can make of a white-balanced upload: the
\* colours are the page's, the masks those the decoder returns.  A recolored
\* byte depends on the decomposition, the mask and the colour, not on the byte
\* it replaces, so every byte of an image built by the handlers without the
\* lighting preset is the byte of one of these images at the same place.
CandidateMaskSet == UNION { Range(list) : list \in CandidateLists }

PaintColors == Colors \cup { White }

\* The sequence seq, element by element.
RECURSIVE Listed(_, _)
Listed(seq, k) == IF k = 0 THEN << >> ELSE Append(Listed(seq, k - 1), seq[k])

RetinexPainted ==
  { Listed(applyRetinexRecolor(b[1], maskToIndices(b[2]), b[3], RetinexOf(b[1])), 4 * NPix) :
      b \in BalancedImages \X CandidateMaskSet \X PaintColors }

ReflectancePainted ==
  { Listed(applyReflectanceColor(b[1], CHOOSE d \in Decompositions(b[1]) : TRUE,
                                 maskToIndices(b[2]), b[3]), 4 * NPix) :
      b \in BalancedImages \X CandidateMaskSet \X PaintColors }

\* BlankCanvas: the canvas before an upload is drawn.
PaintedImages == BalancedImages \cup { BlankCanvas } \cup RetinexPainted \cup ReflectancePainted

\* The bytes found in these images, each with its place.
UnlitBytes == { << j, x[j] >> : j \in 1..(4 * NPix), x \in PaintedImages }

Unlit(img) == \A j \in 1..Len(img) : << j, img[j] >> \in UnlitBytes

\* C13: the base image and every history entry hold pixels to which no lighting
\* preset has been applied.
C13_LightingNotBaked ==
  /\ baseImageData # Null => Unlit(baseImageData)
  /\ \A k \in 1..Len(history) : Unlit(history[k].imageData)

\* A surface was painted under a preset other than "normal": the canvas shows the
\* lit image, which is none of the unlit ones, and the history has the new entry.
C13_Witness ==
  /\ lighting # "normal"
  /\ lastOp = "apply"
  /\ Len(history) > 1
  /\ history # pre.history
  /\ canvas # baseImageData
  /\ ~Unlit(applyLighting(baseImageData, lighting))

-----------------------------------------------------------------------------
(* The segmentation engine: class SAM2 of imageUtils.ts, called by any client *)

MaxEngineCalls == 4

\* canvas.width = canvas.height = 1024 in preprocessImage.
ENCODER_SIZE == 1024

\* Uploads of two shapes, as the widths and heights of their ImageData.
EngineImages == { [ width |-> 2 * ENCODER_SIZE, height |-> ENCODER_SIZE ],
                  [ width |-> ENCODER_SIZE \div 2, height |-> ENCODER_SIZE ] }

\* Prompt points of a mask query.
EnginePoints == { [ x |-> 8, y |-> 4 ] }

\* Math.round of the quotient n / d of two positive integers.
RoundDiv(n, d) == (2 * n + d) \div (2 * d)

\* preprocessImage, lines 647-697: the letterboxed tensor and its parameters.
\* scale = min(1024 / width, 1024 / height), kept as numerator and denominator.
preprocessImage(imageData) ==
  LET longest == Max(imageData.width, imageData.height)
      scaledWidth == RoundDiv(imageData.width * ENCODER_SIZE, longest)
      scaledHeight == RoundDiv(imageData.height * ENCODER_SIZE, longest)
  IN [ tensor |-> imageData,
       scale |-> << ENCODER_SIZE, longest >>,
       offsetX |-> (ENCODER_SIZE - scaledWidth) \div 2,
       offsetY |-> (ENCODER_SIZE - scaledHeight) \div 2 ]

\* The fields of a new SAM2, lines 379-389.  inits, embeddings, requested and
\* overlapped are history variables: how the initialize calls ended so far, how
\* many embeddings were stored, the image of the latest generateEmbedding call,
\* and whether a generateEmbedding call was made while another was running.
NewEngine ==
  [ on |-> TRUE,
    encoderSession |-> FALSE, decoderSession |-> FALSE, imageEmbedding |-> Null,
    origWidth |-> 0, origHeight |-> 0, scale |-> << 1, 1 >>, offsetX |-> 0, offsetY |-> 0,
    inits |-> [ ok |-> FALSE, failed |-> FALSE ], embeddings |-> 0, requested |-> Null,
    overlapped |-> FALSE,
    left |-> MaxEngineCalls ]

\* The letterbox parameters the engine holds.
Letterbox(e) ==
  [ origWidth |-> e.origWidth, origHeight |-> e.origHeight, scale |-> e.scale,
    offsetX |-> e.offsetX, offsetY |-> e.offsetY ]

\* The parameters preprocessImage gives for an image.
LetterboxOf(imageData) ==
  LET r == preprocessImage(imageData)
  IN [ origWidth |-> imageData.width, origHeight |-> imageData.height, scale |-> r.scale,
       offsetX |-> r.offsetX, offsetY |-> r.offsetY ]

InitEngine ==
  /\ InitApp(NoBudget)
  /\ rc = IdleRc
  /\ mem = IdleMem
  /\ engine = NewEngine
  /\ engineCalls = << >>
  /\ engineLog = << >>
  /\ IdleLab

\* A call suspended at an await.  ready, failed and embedded tell what held when
\* it was made: an initialize call had completed; one had failed, none had
\* completed and none was running; an embedding had been stored.
EngineCall(kind, at, image, feeds) ==
  [ kind |-> kind, at |-> at, image |-> image, feeds |-> feeds,
    ready |-> engine.inits.ok,
    failed |-> /\ engine.inits.failed /\ ~engine.inits.ok
               /\ \A j \in 1..Len(engineCalls) : engineCalls[j].kind # "initialize",
    embedded |-> engine.embeddings > 0 ]

\* What a finished call leaves in the log: how it ended, whether it got as far
\* as an inference, and for a mask the image of the embedding its decoder ran
\* on, the parameters its points were mapped with and those its mask was
\* restored with.
EngineOutcome(call, outcome, ran, restored) ==
  [ kind |-> call.kind, outcome |-> outcome, ran |-> ran,
    ready |-> call.ready, failed |-> call.failed, embedded |-> call.embedded,
    image |-> call.image, feeds |-> call.feeds, restored |-> restored,
    requested |-> engine.requested,
    alone |-> /\ ~engine.overlapped
              /\ \A j \in 1..Len(engineCalls) : engineCalls[j].kind # "generateEmbedding"
              /\ \A j \in 1..Len(engineLog) :
                   engineLog[j].kind = "generateEmbedding" => engineLog[j].outcome = "ok" ]

Without(calls, k) == SubSeq(calls, 1, k - 1) \o SubSeq(calls, k + 1, Len(calls))

EngineFrame == UNCHANGED << appVars, rc, mem, labVars >>

\* A call starts: the client calls a method of the engine.
Started(e, call) ==
  /\ engine.on /\ engine.left > 0
  /\ engine' = [ e EXCEPT !.left = engine.left - 1 ]
  /\ engineCalls' = Append(engineCalls, call)
  /\ engineLog' = engineLog
  /\ EngineFrame

\* A call throws before its first await.
Thrown(kind, image) ==
  /\ engine.on /\ engine.left > 0
  /\ engine' = [ engine EXCEPT !.left = engine.left - 1 ]
  /\ engineCalls' = engineCalls
  /\ engineLog' = Append(engineLog,
                         EngineOutcome(EngineCall(kind, "call", image, Null), "error", FALSE, Null))
  /\ EngineFrame

\* Call k goes on to its next await.
Resumed(e, k, at) ==
  /\ engine' = e
  /\ engineCalls' = [ engineCalls EXCEPT ![k].at = at ]
  /\ engineLog' = engineLog
  /\ EngineFrame

\* Call k returns or throws.
Settled(e, k, outcome, restored) ==
  /\ engine' = e
  /\ engineCalls' = Without(engineCalls, k)
  /\ engineLog' = Append(engineLog, EngineOutcome(engineCalls[k], outcome, TRUE, restored))
  /\ EngineFrame

\* initialize(), lines 397-431: up to the await on the encoder session.
Initialize ==
  /\ engine.on
  /\ Started(engine, EngineCall("initialize", "encoder", Null, Null))

\* Lines 431-441: the encoder session is created, or its creation fails and the
\* catch rethrows.
EncoderLoaded(k, ok) ==
  /\ k \in 1..Len(engineCalls)
  /\ engineCalls[k].kind = "initialize" /\ engineCalls[k].at = "encoder"
  /\ IF ok
     THEN Resumed([ engine EXCEPT !.encoderSession = TRUE ], k, "decoder")
     ELSE Settled([ engine EXCEPT !.inits.failed = TRUE ], k, "error", Null)

\* Lines 441-453: the decoder session is created, or its creation fails.
DecoderLoaded(k, ok) ==
  /\ k \in 1..Len(engineCalls)
  /\ engineCalls[k].kind = "initialize" /\ engineCalls[k].at = "decoder"
  /\ IF ok
     THEN Settled([ engine EXCEPT !.decoderSession = TRUE, !.inits.ok = TRUE ], k, "ok", Null)
     ELSE Settled([ engine EXCEPT !.inits.failed = TRUE ], k, "error", Null)

\* generateEmbedding(imageData), lines 456-464: the guard and the call of
\* preprocessImage, which is awaited.
GenerateEmbedding(imageData) ==
  IF ~engine.encoderSession
  THEN Thrown("generateEmbedding", imageData)
  ELSE Started([ engine EXCEPT !.requested = imageData,
                               !.overlapped = \/ engine.overlapped
                                              \/ \E j \in 1..Len(engineCalls) :
                                                   engineCalls[j].kind = "generateEmbedding" ],
               EngineCall("generateEmbedding", "preprocess", imageData, Null))

\* Lines 464-476: the parameters are stored and the encoder is run.
Preprocessed(k) ==
  /\ k \in 1..Len(engineCalls)
  /\ engineCalls[k].kind = "generateEmbedding" /\ engineCalls[k].at = "preprocess"
  /\ LET imageData == engineCalls[k].image
         r == preprocessImage(imageData)
     IN Resumed([ engine EXCEPT !.origWidth = imageData.width,
                                !.origHeight = imageData.height,
                                !.scale = r.scale,
                                !.offsetX = r.offsetX,
                                !.offsetY = r.offsetY ], k, "run")

\* Lines 476-492: the encoder returns and the embedding is stored, or it fails.
EncoderRun(k, ok) ==
  /\ k \in 1..Len(engineCalls)
  /\ engineCalls[k].kind = "generateEmbedding" /\ engineCalls[k].at = "run"
  /\ IF ok
     THEN Settled([ engine EXCEPT !.imageEmbedding = [ image |-> engineCalls[k].image ],
                                  !.embeddings = engine.embeddings + 1 ], k, "ok", Null)
     ELSE Settled(engine, k, "error", Null)

\* The decoder inputs of generateMask and generateMasks (lines 508-541, 588-627):
\* the points in encoder coordinates, the embedding, the image size.  mapped,
\* requested and alone are history fields: the parameters read for the points,
\* the image of the latest generateEmbedding call, and whether the
\* generateEmbedding calls so far had run one after the other and returned
\* without error.
Feeds(prompts) ==
  [ point_coords |-> [ j \in 1..Len(prompts) |->
                         << (prompts[j].x * engine.scale[1]) \div engine.scale[2] + engine.offsetX,
                            (prompts[j].y * engine.scale[1]) \div engine.scale[2] + engine.offsetY >> ],
    image_embed |-> engine.imageEmbedding,
    orig_im_size |-> << engine.origHeight, engine.origWidth >>,
    mapped |-> Letterbox(engine),
    requested |-> engine.requested,
    alone |-> /\ ~engine.overlapped
              /\ \A j \in 1..Len(engineCalls) : engineCalls[j].kind # "generateEmbedding"
              /\ \A j \in 1..Len(engineLog) :
                   engineLog[j].kind = "generateEmbedding" => engineLog[j].outcome = "ok" ]

\* generateMask(point), lines 495-543.
GenerateMask(point) ==
  IF ~engine.decoderSession \/ engine.imageEmbedding = Null
  THEN Thrown("generateMask", Null)
  ELSE Started(engine, EngineCall("generateMask", "decode", Null, Feeds(<< point >>)))

\* generateMasks(config), lines 564-629.
GenerateMasks(prompts) ==
  IF ~engine.decoderSession \/ engine.imageEmbedding = Null \/ Len(prompts) = 0
  THEN Thrown("generateMasks", Null)
  ELSE Started(engine, EngineCall("generateMasks", "decode", Null, Feeds(prompts)))

\* Lines 543-561 and 629-644: the decoder returns and the masks are restored to
\* the image with the parameters held then (restoreMaskToOriginal, 724-757), or
\* it fails.
DecoderRun(k, ok) ==
  /\ k \in 1..Len(engineCalls)
  /\ engineCalls[k].kind \in { "generateMask", "generateMasks" } /\ engineCalls[k].at = "decode"
  /\ IF ok
     THEN Settled(engine, k, "ok", Letterbox(engine))
     ELSE Settled(engine, k, "error", Null)

NextEngine ==
  \/ Initialize
  \/ \E k \in 1..MaxEngineCalls, ok \in BOOLEAN : EncoderLoaded(k, ok)
  \/ \E k \in 1..MaxEngineCalls, ok \in BOOLEAN : DecoderLoaded(k, ok)
  \/ \E imageData \in EngineImages : GenerateEmbedding(imageData)
  \/ \E k \in 1..MaxEngineCalls : Preprocessed(k)
  \/ \E k \in 1..MaxEngineCalls, ok \in BOOLEAN : EncoderRun(k, ok)
  \/ \E point \in EnginePoints : GenerateMask(point)
  \/ \E prompts \in { << >> } \cup { << p >> : p \in EnginePoints } : GenerateMasks(prompts)
  \/ \E k \in 1..MaxEngineCalls, ok \in BOOLEAN : DecoderRun(k, ok)

SpecEngine == InitEngine /\ [][NextEngine]_vars

MaskKinds == { "generateMask", "generateMasks" }

\* C14: a generateEmbedding call made before an initialize call has completed,
\* and a generateMask or generateMasks call made before an embedding was stored,
\* ends with an error and is never left running or answered with a result.
C14_FailsBeforeReady ==
  /\ \A k \in 1..Len(engineCalls) :
       /\ engineCalls[k].kind = "generateEmbedding" => engineCalls[k].ready
       /\ engineCalls[k].kind \in MaskKinds => engineCalls[k].embedded
  /\ \A k \in 1..Len(engineLog) :
       /\ (engineLog[k].kind = "generateEmbedding" /\ ~engineLog[k].ready)
            => engineLog[k].outcome = "error"
       /\ (engineLog[k].kind \in MaskKinds /\ ~engineLog[k].embedded)
            => engineLog[k].outcome = "error"

\* The part of C14 about the mask queries: made before an embedding was
\* stored, they throw before any inference.
C14_MaskNeedsEmbedding ==
  /\ \A k \in 1..Len(engineCalls) :
       engineCalls[k].kind \in MaskKinds => engineCalls[k].embedded
  /\ \A k \in 1..Len(engineLog) :
       (engineLog[k].kind \in MaskKinds /\ ~engineLog[k].embedded)
         => (engineLog[k].outcome = "error" /\ ~engineLog[k].ran)

\* C15: after a failed initialize, with none completed and none running, every
\* generateEmbedding, generateMask and generateMasks call throws at once and
\* runs no inference.
C15_FailedInitFailsFast ==
  /\ \A k \in 1..Len(engineCalls) :
       engineCalls[k].kind # "initialize" => ~engineCalls[k].failed
  /\ \A k \in 1..Len(engineLog) :
       (engineLog[k].kind # "initialize" /\ engineLog[k].failed)
         => (engineLog[k].outcome = "error" /\ ~engineLog[k].ran)

\* The part of C15 about the mask queries: after a failed initialize they throw
\* before any inference.
C15_MaskFailsFast ==
  /\ \A k \in 1..Len(engineCalls) :
       engineCalls[k].kind \in MaskKinds => ~engineCalls[k].failed
  /\ \A k \in 1..Len(engineLog) :
       (engineLog[k].kind \in MaskKinds /\ engineLog[k].failed)
         => (engineLog[k].outcome = "error" /\ ~engineLog[k].ran)

\* The embedding and the parameters of a mask query are those of one image, the
\* image of the latest generateEmbedding call.
Consistent(feeds, restored) ==
  /\ feeds.mapped = LetterboxOf(feeds.image_embed.image)
  /\ restored = LetterboxOf(feeds.image_embed.image)
  /\ feeds.image_embed.image = feeds.requested

\* C16: the decoder of every mask query runs on the embedding of the image of
\* the latest generateEmbedding call, its points are mapped with the letterbox
\* parameters of that image and its mask is restored with them.
C16_SameImage ==
  /\ \A k \in 1..Len(engineCalls) :
       engineCalls[k].kind \in MaskKinds
         => Consistent(engineCalls[k].feeds, LetterboxOf(engineCalls[k].feeds.image_embed.image))
  /\ \A k \in 1..Len(engineLog) :
       (engineLog[k].kind \in MaskKinds /\ engineLog[k].outcome = "ok")
         => Consistent(engineLog[k].feeds, engineLog[k].restored)

\* The case without overlap or failure: a mask query made while no
\* generateEmbedding call was running and none had failed, and answered before
\* another image was submitted.
C16_QuietSameImage ==
  \A k \in 1..Len(engineLog) :
    (/\ engineLog[k].kind \in MaskKinds /\ engineLog[k].outcome = "ok"
     /\ engineLog[k].feeds.alone
     /\ engineLog[k].requested = engineLog[k].feeds.requested)
      => Consistent(engineLog[k].feeds, engineLog[k].restored)

-----------------------------------------------------------------------------
(* Clicks and the pointer while the engine is at work *)

\* An embedding generation started by process() is awaited.
Embedding == \E k \in 1..Len(pending) : pending[k].stage = "embed"

\* A mask request started by a click is awaited.
Requesting == Len(maskRequests) > 0

\* A step of handleMouseDown that got past its guard.
ClickStep == budget'.click < budget.click

\* C17: while a mask request started by a click or an embedding generation is
\* awaited, a click starts no mask request and leaves the points, the
\* candidates, the surfaces and the history as they are.
C17_ClickIgnoredInFlight ==
  [][((Embedding \/ Requesting) /\ ClickStep)
       => /\ maskRequests' = maskRequests
          /\ points' = points
          /\ << candidateMasks, candidateIndex >>' = << candidateMasks, candidateIndex >>
          /\ << walls, groups >>' = << walls, groups >>
          /\ << history, currentHistoryIndex >>' = << history, currentHistoryIndex >>]_vars

\* The guard of handleMouseDown: no click gets past it while isProcessing is set.
C17_GuardedByFlag ==
  [][ClickStep => (sam /\ ~isProcessing)]_vars

\* setTimeout(..., 150) in handleMouseMove.
HOVER_DELAY == 150

\* The clock advances by steps of TickMs, MaxTicks times at most.
TickMs == 50
MaxTicks == 4
MaxPointerOps == 11

\* Pointer positions of a move, and the masks the decoder returns for them.
MoveInputs == { [ x |-> 0, y |-> 0 ] }
HoverMasks == { DenseMask(LowHalf) }

\* What drawCanvas reads from the render its callback was created in.
Seen == [ history |-> history, currentHistoryIndex |-> currentHistoryIndex, lighting |-> lighting ]

\* The state as a callback created in an earlier render sees it.
Stale(seen) ==
  [ Cur EXCEPT !.history = seen.history, !.currentHistoryIndex = seen.currentHistoryIndex,
               !.lighting = seen.lighting ]

\* handleMouseMove, lines 315-357, in point mode.
HandleMouseMove(p) ==
  /\ Spend("move")
  /\ ~sam \/ boxStart = Null     \* lines 321-330: the drag branch is HandleMouseMoveBox
  /\ lastMove' = clock
  /\ IF ~sam
     THEN /\ Set(Cur)
          /\ hoverTimer' = hoverTimer
     ELSE IF Len(points) > 0 \/ Len(candidateMasks) > 0
     THEN /\ Set([ Cur EXCEPT !.canvas = drawCanvas(Cur, CurrentCandidate(Cur)) ])
          /\ hoverTimer' = hoverTimer
     ELSE /\ Set(Cur)
          /\ hoverTimer' =
               [ current |-> hoverTimer.nextId,
                 scheduled |-> Append(CancelHover(hoverTimer).scheduled,
                                      [ id |-> hoverTimer.nextId, due |-> clock + HOVER_DELAY,
                                        moved |-> clock, point |-> p, seen |-> Seen ]),
                 nextId |-> hoverTimer.nextId + 1 ]
  /\ Quiet
  /\ UNCHANGED << hoverCalls, clock, otherVars >>

\* onMouseLeave: clearHover, lines 359-369.
ClearHover ==
  /\ Spend("leave")
  /\ Set([ Cur EXCEPT !.canvas = drawCanvas(Cur, CurrentCandidate(Cur)) ])
  /\ hoverTimer' = ResetHover(hoverTimer)
  /\ hoverCalls' = Dismissed(hoverCalls)
  /\ Quiet
  /\ UNCHANGED << clock, lastMove, otherVars >>

\* Time passes.
Tick ==
  /\ Spend("tick")
  /\ clock' = clock + TickMs
  /\ Set(Cur)
  /\ Quiet
  /\ UNCHANGED << hoverTimer, hoverCalls, lastMove, otherVars >>

\* A hover timeout fires, lines 349-351: the callback calls sam.generateMask,
\* which reads the engine's embedding, and awaits it.  `idle` and `waited` are
\* history fields: the time since the last pointer move, and since the move
\* that set the timeout.
HoverTimerFire(k) ==
  /\ k \in 1..Len(hoverTimer.scheduled)
  /\ hoverTimer.scheduled[k].due <= clock
  /\ hoverTimer' = [ hoverTimer EXCEPT !.scheduled = RemoveAt(hoverTimer.scheduled, k) ]
  /\ hoverCalls' = Append(hoverCalls,
                          [ point |-> hoverTimer.scheduled[k].point,
                            seen |-> hoverTimer.scheduled[k].seen,
                            embedding |-> samEmbedding,
                            idle |-> clock - lastMove,
                            waited |-> clock - hoverTimer.scheduled[k].moved,
                            dismissed |-> FALSE ])
  /\ Set(Cur)
  /\ Quiet
  /\ UNCHANGED << budget, clock, lastMove, otherVars >>

\* The hover callback resumed, lines 351-355: drawCanvas(mask) of the render the
\* handler belonged to, or the catch (always so without an embedding).
HoverMaskDone(k, ok, mask) ==
  /\ k \in 1..Len(hoverCalls)
  /\ ok => hoverCalls[k].embedding # Null
  /\ IF ok \/ hoverCalls[k].embedding = Null THEN UNCHANGED budget ELSE Spend("fault")
  /\ hoverCalls' = RemoveAt(hoverCalls, k)
  /\ IF ok
     THEN Set([ Cur EXCEPT !.canvas = drawCanvas(Stale(hoverCalls[k].seen), mask) ])
     ELSE Set(Cur)
  /\ Quiet
  /\ UNCHANGED << hoverTimer, clock, lastMove, otherVars >>

Hovering ==
  [ NoBudget EXCEPT !.load = 1, !.click = 1, !.select = 1, !.move = 2, !.leave = 1,
                    !.tick = MaxTicks, !.ops = MaxPointerOps ]

InitHover == InitApp(Hovering) /\ rc = IdleRc /\ IdleHarness

NextHover ==
  \/ ImageOnload(ImageA)
  \/ \E k \in 1..Len(pending) : SamInitDone(k, TRUE)
  \/ \E k \in 1..Len(pending) : EmbeddingDone(k, TRUE)
  \/ TimerFire
  \/ \E p \in MoveInputs : HandleMouseMove(p)
  \/ ClearHover
  \/ Tick
  \/ \E k \in 1..Len(hoverTimer.scheduled) : HoverTimerFire(k)
  \/ \E k \in 1..Len(hoverCalls), mask \in HoverMasks : HoverMaskDone(k, TRUE, mask)
  \/ \E k \in 1..Len(hoverCalls) : HoverMaskDone(k, FALSE, << >>)
  \/ \E click \in { c \in ClickInputs : c.label = 1 } : HandleMouseDown(click)
  \/ \E k \in 1..Len(maskRequests), masks \in CandidateLists : MaskRequestDone(k, TRUE, masks)
  \/ ClearSelections

SpecHover == InitHover /\ [][NextHover]_vars

\* The engine inferences being awaited: encoder runs of process(), decoder runs
\* of clicks and of hover callbacks (a mask query made without an embedding
\* throws before the decoder).
Inferences ==
  Cardinality({ k \in 1..Len(pending) : pending[k].stage = "embed" })
  + Cardinality({ k \in 1..Len(maskRequests) : Answerable(maskRequests[k]) })
  + Cardinality({ k \in 1..Len(hoverCalls) : hoverCalls[k].embedding # Null })

\* C18: at most one inference of the engine is awaited at any time.
C18_OneInference == Inferences <= 1

LeaveStep == budget'.leave < budget.leave

\* C19: the callback of a hover request that was awaiting its mask when the
\* pointer left or a click was accepted draws nothing on the canvas when it
\* resumes.
C19_NoLateOverlay ==
  [][\A k \in 1..Len(hoverCalls) :
       (hoverCalls[k].dismissed /\ hoverCalls' = RemoveAt(hoverCalls, k))
         => canvas' = canvas]_vars

\* The part of C19 about the requests not yet issued: when the pointer leaves or
\* a click is accepted, no hover timeout stays pending.
C19_PendingCancelled ==
  [][(LeaveStep \/ ClickStep) => hoverTimer'.scheduled = << >>]_vars

\* C20: at most one hover timeout is pending, and a hover request is issued
\* only when the pointer has not moved for HOVER_DELAY.
C20_Debounced ==
  /\ Len(hoverTimer.scheduled) <= 1
  /\ \A k \in 1..Len(hoverCalls) : hoverCalls[k].idle >= HOVER_DELAY

\* The part of C20 that the timer gives: at most one timeout is pending, and a
\* request is issued HOVER_DELAY or more after the move that set its timeout.
C20_OnePending ==
  /\ Len(hoverTimer.scheduled) <= 1
  /\ \A k \in 1..Len(hoverCalls) : hoverCalls[k].waited >= HOVER_DELAY

-----------------------------------------------------------------------------
(* Failed mask requests *)

\* The images, the history and the surfaces.
Kept == << originalImageData, baseImageData, history, currentHistoryIndex, walls, groups >>

\* generateCandidates resumed in its catch.
RequestFailed ==
  /\ Len(maskRequests') < Len(maskRequests)
  /\ status' = "Failed to generate mask"

\* The hover callback resumed in its catch, or with a mask.
HoverSettled == Len(hoverCalls') < Len(hoverCalls)

\* C21: a step in which a mask request fails leaves the pristine image, the
\* base image, the history, its cursor, the surfaces and the groups as they were.
C21_FailureKeepsState == [][RequestFailed => UNCHANGED Kept]_vars

\* A mask request has failed on a loaded image with points placed.
C21_Witness ==
  /\ status = "Failed to generate mask"
  /\ baseImageData # Null /\ Len(history) > 0 /\ currentHistoryIndex = 0
  /\ Len(points) > 0
  /\ maskRequests = << >>

\* The same for the hover request: its callback, failed or not, changes none of them.
C21_HoverKeepsState == [][HoverSettled => UNCHANGED Kept]_vars

-----------------------------------------------------------------------------
(* Masks and the image they were made for *)

\* applyCandidate past its guard.
ApplyStep == lastOp' = "apply" /\ budget'.apply < budget.apply

\* C22: a candidate mask is applied only when the embedding it was decoded from
\* is that of the pristine image now loaded.
C22_AppliedMaskIsCurrent ==
  [][ApplyStep => candidateSource = originalImageData]_vars

\* The masks a mask request returns are those of the embedding the engine held
\* when the request was made.
C22_SourceIsRequestEmbedding ==
  [][(Len(maskRequests') < Len(maskRequests) /\ candidateMasks' # candidateMasks)
       => \E k \in 1..Len(maskRequests) : candidateSource' = maskRequests[k].embedding]_vars

-----------------------------------------------------------------------------
(* The process-wide runtime configuration *)
(* ort.env is one object per process and SAM2.isInitialized one static     *)
(* field per process; several SAM2 instances call initialize, each call    *)
(* running without interruption up to its first await (lines 398-431) and  *)
(* then suspended at the encoder load and at the decoder load.             *)

MaxInstances == 3
MaxInitCalls == 4

\* ort.env.wasm before anyone configures it.
DefaultEnv == [ simd |-> FALSE, numThreads |-> 0, wasmPaths |-> "default" ]

NewRuntime ==
  [ on |-> TRUE, isInitialized |-> FALSE, env |-> DefaultEnv,
    applied |-> 0,          \* history: how often lines 403-420 ran
    sessions |-> [ i \in 1..MaxInstances |-> [ encoderSession |-> FALSE, decoderSession |-> FALSE ] ],
    calls |-> << >>,        \* initialize calls suspended at an await
    made |-> 0 ]            \* history: initialize calls made

InitRuntime ==
  /\ InitApp(NoBudget)
  /\ rc = IdleRc
  /\ mem = IdleMem
  /\ engine = IdleEngine /\ engineCalls = << >> /\ engineLog = << >>
  /\ runtime = NewRuntime
  /\ unit = IdleUnit

RuntimeFrame == UNCHANGED << appVars, rc, mem, engineObject, unit >>

\* The block without the assignment of line 417.
ConfigureRuntimeUnflagged(r) ==
  [ r EXCEPT !.env = [ simd |-> TRUE, numThreads |-> 4, wasmPaths |-> "/ort-wasm-simd-threaded" ],
             !.applied = r.applied + 1 ]

\* Lines 403-420: the block guarded by the static flag.
ConfigureRuntime(r) ==
  IF ~r.isInitialized
  THEN [ r EXCEPT !.env = [ simd |-> TRUE, numThreads |-> 4, wasmPaths |-> "/ort-wasm-simd-threaded" ],
                  !.isInitialized = TRUE,
                  !.applied = r.applied + 1 ]
  ELSE r

\* initialize() of instance i up to `await ort.InferenceSession.create(encoderPath)`.
RuntimeInitialize(i) ==
  /\ runtime.on
  /\ runtime.made < MaxInitCalls
  /\ runtime' = [ ConfigureRuntime(runtime) EXCEPT
                    !.calls = Append(runtime.calls, [ instance |-> i, stage |-> "encoder" ]),
                    !.made = runtime.made + 1 ]
  /\ RuntimeFrame

\* The encoder session arrives (line 431), or its creation fails (450-453).
RuntimeEncoderLoaded(k, ok) ==
  /\ runtime.on
  /\ runtime.calls[k].stage = "encoder"
  /\ runtime' = IF ok
                THEN [ runtime EXCEPT !.sessions[runtime.calls[k].instance].encoderSession = TRUE,
                                      !.calls[k].stage = "decoder" ]
                ELSE [ runtime EXCEPT !.calls = Without(runtime.calls, k) ]
  /\ RuntimeFrame

\* The decoder session arrives (line 441), or its creation fails.
RuntimeDecoderLoaded(k, ok) ==
  /\ runtime.on
  /\ runtime.calls[k].stage = "decoder"
  /\ runtime' = [ runtime EXCEPT
                    !.sessions[runtime.calls[k].instance].decoderSession =
                        IF ok THEN TRUE ELSE @,
                    !.calls = Without(runtime.calls, k) ]
  /\ RuntimeFrame

NextRuntime ==
  \/ \E i \in 1..MaxInstances : RuntimeInitialize(i)
  \/ \E k \in 1..Len(runtime.calls) : RuntimeEncoderLoaded(k, TRUE)
  \/ \E k \in 1..Len(runtime.calls) : RuntimeEncoderLoaded(k, FALSE)
  \/ \E k \in 1..Len(runtime.calls) : RuntimeDecoderLoaded(k, TRUE)
  \/ \E k \in 1..Len(runtime.calls) : RuntimeDecoderLoaded(k, FALSE)

SpecRuntime == InitRuntime /\ [][NextRuntime]_vars

\* C23: the configuration block has run at most once, however many instances called
\* initialize and however their calls overlap; what it wrote is still in ort.env.
C23_ConfiguredOnce ==
  /\ runtime.applied <= 1
  /\ runtime.applied = (IF runtime.isInitialized THEN 1 ELSE 0)
  /\ runtime.made > 0 => runtime.env.numThreads = 4 /\ runtime.env.simd

\* Two instances have their initialize calls suspended together, a third has completed.
C23_Witness ==
  /\ runtime.on
  /\ runtime.applied = 1
  /\ \E j, k \in 1..Len(runtime.calls) :
       runtime.calls[j].instance # runtime.calls[k].instance
  /\ \E i \in 1..MaxInstances :
       /\ runtime.sessions[i].decoderSession
       /\ \A k \in 1..Len(runtime.calls) : runtime.calls[k].instance # i

-----------------------------------------------------------------------------
(* Degenerate inputs of the recolor steps *)

\* C24: a recolor step called with no pixel index returns, and the image it was
\* given has every byte it had, under either strategy.
C24_EmptyMaskNoOp ==
  (rc.steps > 0 /\ rc.indices = << >>) => rc.after = rc.before

\* The second step is made with an empty mask under the intrinsic strategy, on an
\* image that the same call with a pixel selected would change.
C24_Witness ==
  /\ rc.steps = 2
  /\ rc.indices = << >>
  /\ rc.strategy = "intrinsic"
  /\ rc.after # applyReflectanceColor(rc.after, rc.decomposition[1], << 0 >>, rc.color)

\* The mean gray luminance over the pixels of the last step, line 119.
MeanGray == SumAt(rc.pre[1].gray, rc.indices, 1) \div Len(rc.indices)

\* C29: a recolor step over a non-empty region computes every pixel from finite
\* intermediates: no 0/0 chroma ratio, no gain of a zero mean reflectance.
C29_FiniteIntermediates ==
  (rc.steps > 0 /\ rc.indices # << >>) =>
     IF rc.strategy = "retinex"
     THEN \A k \in 1..Len(rc.indices) :
            ~ChromaRatioIsNaN(rc.pre[1].gray[rc.indices[k] + 1], MeanGray)
     ELSE \A c \in 1..3 :
            GainIsFinite(ReflectanceMean(rc.decomposition[1], rc.indices)[c])

-----------------------------------------------------------------------------
(* The strategy of a recolor *)

\* A run with the intrinsic strategy selected: the network loads, an image is
\* decomposed, painted, reset and painted again.
Repainting ==
  [ NoBudget EXCEPT !.algorithm = 1, !.props = 1, !.load = 1, !.click = 1, !.apply = 2,
                    !.reset = 1, !.travel = 1, !.ops = 6 ]

InitStrategy == InitApp(Repainting) /\ rc = IdleRc /\ IdleHarness

NextStrategy ==
  \/ \E alg \in { "retinex", "intrinsic" } : SetAlgorithm(alg)
  \/ \E img \in RawImages : ImageOnload(img)
  \/ \E k \in 1..Len(pending) : SamInitDone(k, TRUE)
  \/ \E k \in 1..Len(pending) : NiidInitDone(k, TRUE)
  \/ \E k \in 1..Len(pending) : DecomposeDone(k, TRUE)
  \/ \E k \in 1..Len(pending) : EmbeddingDone(k, TRUE)
  \/ TimerFire
  \/ \E click \in ClickInputs : HandleMouseDown(click)
  \/ \E k \in 1..Len(maskRequests), masks \in CandidateLists : MaskRequestDone(k, TRUE, masks)
  \/ ApplyCandidate
  \/ Reset

SpecStrategy == InitStrategy /\ [][NextStrategy]_vars

\* The intrinsic strategy is selected, its network is loaded and every process()
\* run has finished: the run that loaded the present image went through
\* niid.decompose (lines 178-186), none of them failing here.
Decomposed ==
  /\ algorithm = "intrinsic" /\ niid
  /\ originalImageData # Null /\ baseImageData # Null
  /\ \A k \in 1..Len(pending) : pending[k].stage \notin { "decompose", "niidInit" }

\* C27: with the intrinsic strategy selected and the image decomposed, applying a
\* candidate paints with applyReflectanceColor over the decomposition of the image,
\* also when the image has been reset.
C27_IntrinsicStays ==
  [][(ApplyStep /\ Decomposed) =>
       \E d \in Decompositions(originalImageData) :
         baseImageData' = applyReflectanceColor(baseImageData, d,
                                                maskToIndices(candidateMasks[candidateIndex + 1]),
                                                selectedColor)]_vars

\* Until reset is called the property holds.
C27_IntrinsicUntilReset ==
  [][(ApplyStep /\ Decomposed /\ budget.reset > 0) =>
       \E d \in Decompositions(originalImageData) :
         baseImageData' = applyReflectanceColor(baseImageData, d,
                                                maskToIndices(candidateMasks[candidateIndex + 1]),
                                                selectedColor)]_vars

-----------------------------------------------------------------------------
(* The lighting preset *)

\* What a change of the preset must leave alone: the images, the history, the
\* surfaces, both illumination models, the embedding, and the runs in flight.
Unlighted ==
  << originalImageData, baseImageData, history, currentHistoryIndex, walls, groups,
     retinexRef, intrinsicRef, samEmbedding, pending, maskRequests >>

\* C30: a step that changes the lighting preset changes the canvas at most: the
\* images, the history and its cursor, the surfaces, the groups, the illumination
\* models and the embedding stay, and no decomposition or embedding run is started.
C30_LightingOnlyDraws == [][lighting' # lighting => UNCHANGED Unlighted]_vars

\* The preset was changed with an image loaded, embedded and painted: the canvas
\* is not what it would show under the normal preset.
C30_Witness ==
  /\ lighting # "normal"
  /\ budget.lighting < TimeTravel.lighting
  /\ Len(walls) > 0
  /\ baseImageData # Null /\ baseImageData # originalImageData
  /\ samEmbedding # Null
  /\ canvas # Render([ Cur EXCEPT !.lighting = "normal" ]).canvas

-----------------------------------------------------------------------------
(* Pure functions of the engine: the component filter, the choice of masks *)
(* The masks here are ImageData of GridWidth x GridHeight pixels.          *)

GridWidth == 4
GridHeight == 3
GridPixels == 0..(GridWidth * GridHeight - 1)

\* A mask as postprocessMask and restoreMaskToOriginal hand it on: (255, 0, 0, 255)
\* on a foreground pixel, zeros elsewhere.
GridMask(members) ==
  [ j \in 1..(4 * GridWidth * GridHeight) |->
      IF ((j - 1) \div 4) \in members /\ (j - 1) % 4 \in { 0, 3 } THEN 255 ELSE 0 ]

\* The pixels whose red byte is set.
Foreground(data) == { i \in 0..((Len(data) \div 4) - 1) : data[4 * i + 1] > 0 }

\* The offsets <<dx, dy>> in the order of the two loops of getNeighbors.
NeighborOffsets ==
  << << -1, -1 >>, << 0, -1 >>, << 1, -1 >>, << -1, 0 >>, << 1, 0 >>,
     << -1, 1 >>, << 0, 1 >>, << 1, 1 >> >>

\* The offsets of a 4-connected neighbourhood.
EdgeOffsets == << << 0, -1 >>, << -1, 0 >>, << 1, 0 >>, << 0, 1 >> >>

NeighborsAt(idx, width, height, offsets) ==
  LET x == idx % width
      y == idx \div width
      inside == SelectSeq(offsets,
                          LAMBDA d : /\ x + d[1] >= 0 /\ x + d[1] < width
                                     /\ y + d[2] >= 0 /\ y + d[2] < height)
  IN [ k \in 1..Len(inside) |-> (y + inside[k][2]) * width + (x + inside[k][1]) ]

\* getNeighbors without the diagonal steps.
getNeighborsEdge(idx, width, height) == NeighborsAt(idx, width, height, EdgeOffsets)

\* getNeighbors, lines 765-780.
getNeighbors(idx, width, height) == NeighborsAt(idx, width, height, NeighborOffsets)

\* The for-of loop over the neighbours of the popped pixel, lines 789-795.
RECURSIVE VisitNeighbors(_, _, _, _)
VisitNeighbors(data, neighbors, k, fill) ==
  IF k > Len(neighbors) THEN fill
  ELSE LET n == neighbors[k]
       IN IF data[n * 4 + 1] > 0 /\ n \notin fill.visited
          THEN VisitNeighbors(data, neighbors, k + 1,
                              [ visited |-> fill.visited \cup { n },
                                queue |-> Append(fill.queue, n),
                                indices |-> Append(fill.indices, n) ])
          ELSE VisitNeighbors(data, neighbors, k + 1, fill)

\* The while loop, lines 787-796: queue.pop() takes the last element.
RECURSIVE Flood(_, _, _, _)
Flood(data, width, height, fill) ==
  IF fill.queue = << >> THEN fill
  ELSE LET current == fill.queue[Len(fill.queue)]
           popped == [ fill EXCEPT !.queue = SubSeq(fill.queue, 1, Len(fill.queue) - 1) ]
       IN Flood(data, width, height,
                VisitNeighbors(data, getNeighbors(current, width, height), 1, popped))

\* The outer loop, lines 782-800.
RECURSIVE ComponentScan(_, _, _, _, _, _)
ComponentScan(data, width, height, i, seen, bestIndices) ==
  IF i >= width * height THEN bestIndices
  ELSE IF data[i * 4 + 1] = 0 \/ i \in seen
       THEN ComponentScan(data, width, height, i + 1, seen, bestIndices)
       ELSE LET fill == Flood(data, width, height,
                              [ visited |-> seen \cup { i }, queue |-> << i >>,
                                indices |-> << i >> ])
            IN ComponentScan(data, width, height, i + 1, fill.visited,
                             IF Len(fill.indices) > Len(bestIndices)
                             THEN fill.indices ELSE bestIndices)

\* filterLargestComponent, lines 760-811: the data of the ImageData returned.
filterLargestComponent(data, width, height) ==
  LET bestIndices == ComponentScan(data, width, height, 0, {}, << >>)
      kept == { bestIndices[k] : k \in 1..Len(bestIndices) }
  IN [ j \in 1..(width * height * 4) |->
         IF ((j - 1) \div 4) \in kept /\ (j - 1) % 4 \in { 0, 3 } THEN 255 ELSE 0 ]

UnitFrame == UNCHANGED << appVars, rc, mem, engineObject, runtime >>

InitUnit(inputs) ==
  /\ InitApp(NoBudget)
  /\ rc = IdleRc
  /\ mem = IdleMem
  /\ engine = IdleEngine /\ engineCalls = << >> /\ engineLog = << >>
  /\ runtime = IdleRuntime
  /\ \E input \in inputs : unit = [ on |-> TRUE, input |-> input, done |-> FALSE, output |-> << >> ]

InitComponents == InitUnit({ GridMask(members) : members \in SUBSET GridPixels })

FilterLargestComponent ==
  /\ unit.on /\ ~unit.done
  /\ unit' = [ unit EXCEPT !.done = TRUE,
                           !.output = filterLargestComponent(unit.input, GridWidth, GridHeight) ]
  /\ UnitFrame

SpecComponents == InitComponents /\ [][FilterLargestComponent]_vars

\* Two pixels touch when they differ by at most one column and one row.
Touching(i, j) ==
  LET dx == (i % GridWidth) - (j % GridWidth)
      dy == (i \div GridWidth) - (j \div GridWidth)
  IN i # j /\ dx \in -1..1 /\ dy \in -1..1

\* The 8-connected component of pixel i within a set of pixels.
RECURSIVE Grown(_, _)
Grown(members, part) ==
  LET more == part \cup { n \in members : \E c \in part : Touching(c, n) }
  IN IF more = part THEN part ELSE Grown(members, more)

ComponentOf(members, i) == Grown(members, { i })

\* C25: the mask returned holds exactly the pixels of one 8-connected component of
\* the input, no component of the input is larger, and nothing else is set; for an
\* input without foreground the mask returned is empty.
C25_LargestComponent ==
  unit.done =>
    LET members == Foreground(unit.input)
        kept == Foreground(unit.output)
    IN /\ unit.output = GridMask(kept)
       /\ members = {} => kept = {}
       /\ members # {} =>
            /\ \E i \in members : kept = ComponentOf(members, i)
            /\ \A j \in members : Cardinality(ComponentOf(members, j)) <= Cardinality(kept)

\* The input has a component joined only through a diagonal step and a smaller
\* component apart from it; the filter has kept the first and cleared the second.
C25_Witness ==
  /\ unit.done
  /\ unit.input = GridMask({ 0, 5, 10, 3 })
  /\ Foreground(unit.output) = { 0, 5, 10 }

-----------------------------------------------------------------------------
(* generateMasks after the decoder has run *)

MaxChannels == 3

\* The decoder's answer: result.masks with dims [1, K, height, width], its data
\* the K channels of logits one after another, and result.iou_predictions with
\* the predicted quality of each channel (in tenths).
ScoreValues == { 2, 5, 8 }
ChannelMembers == << { 0, 1, 11 }, { 5, 6, 10 }, { 2, 3, 7, 8 } >>
Logits(k) ==
  [ j \in 1..(k * GridWidth * GridHeight) |->
      IF ((j - 1) % (GridWidth * GridHeight)) \in
           ChannelMembers[((j - 1) \div (GridWidth * GridHeight)) + 1]
      THEN 4 ELSE -3 ]
DecoderResults ==
  { [ masks |-> [ dims |-> << 1, k, GridHeight, GridWidth >>, data |-> Logits(k) ],
      iou_predictions |-> scores ] :
      k \in 1..MaxChannels, scores \in UNION { [ 1..n -> ScoreValues ] : n \in 1..MaxChannels } }

\* The config argument: with topK, or without it.
MaskConfigs == { [ topK |-> 1 ], [ topK |-> 2 ], [ topK |-> 5 ], [ positivePoints |-> 1 ] }

\* postprocessMask, lines 699-722: channel maskIdx as an RGBA mask.
postprocessMask(masks, maskIdx) ==
  LET height == masks.dims[3]
      width == masks.dims[4]
      start == width * height * maskIdx
  IN [ j \in 1..(width * height * 4) |->
         IF (j - 1) % 4 \in { 0, 3 } /\ masks.data[start + ((j - 1) \div 4) + 1] > 0
         THEN 255 ELSE 0 ]

\* Channel i of the answer as generateMasks and generateMask return it.  The mask
\* has the size of the image and the letterbox is the identity (a square image of
\* the encoder's size), so that restoreMaskToOriginal draws it onto itself.
Finished(result, i) ==
  filterLargestComponent(postprocessMask(result.masks, i), result.masks.dims[4],
                         result.masks.dims[3])

\* generateMasks, lines 629-645: what it returns for a decoder answer.
generateMasksFrom(result, config) ==
  LET k == result.masks.dims[2]
      num == Min(IF "topK" \in DOMAIN config THEN config.topK ELSE k, k)
  IN [ i \in 1..num |-> Finished(result, i - 1) ]

InitRanking ==
  InitUnit({ [ result |-> r, config |-> c ] :
               r \in { d \in DecoderResults : Len(d.iou_predictions) = d.masks.dims[2] },
               c \in MaskConfigs })

GenerateMasksReturn ==
  /\ unit.on /\ ~unit.done
  /\ unit' = [ unit EXCEPT !.done = TRUE,
                           !.output = generateMasksFrom(unit.input.result, unit.input.config) ]
  /\ UnitFrame

SpecRanking == InitRanking /\ [][GenerateMasksReturn]_vars

\* The channel a returned mask was made from.
ChannelOf(result, mask) ==
  CHOOSE i \in 0..(result.masks.dims[2] - 1) : Finished(result, i) = mask

ScoreOf(result, mask) == result.iou_predictions[ChannelOf(result, mask) + 1]

Requested(input) ==
  LET k == input.result.masks.dims[2]
  IN Min(IF "topK" \in DOMAIN input.config THEN input.config.topK ELSE k, k)

\* C26: generateMasks returns min(topK, K) masks in descending order of predicted
\* quality, the first being that of the best channel.
C26_RankedByScore ==
  unit.done =>
    LET out == unit.output
        result == unit.input.result
    IN /\ Len(out) = Requested(unit.input)
       /\ \A a, b \in 1..Len(out) :
            a < b => ScoreOf(result, out[a]) >= ScoreOf(result, out[b])
       /\ Len(out) > 0 =>
            \A i \in 1..Len(result.iou_predictions) :
              result.iou_predictions[i] <= ScoreOf(result, out[1])

\* What is returned: the first min(topK, K) channels in the order of the tensor.
C26_FirstChannels ==
  unit.done =>
    /\ Len(unit.output) = Requested(unit.input)
    /\ \A a \in 1..Len(unit.output) : ChannelOf(unit.input.result, unit.output[a]) = a - 1

-----------------------------------------------------------------------------
(* Group names *)
(* A text is the sequence of its characters, so that trim() is computed.  The  *)
(* text fields (newGroupName, editingNames[groupId]) hold what the user typed: *)
(* they are the inputs of the two handlers.                                    *)

NameInputs ==
  { << >>, << " " >>, << "a" >>, << " ", "a" >>, << "a", " " >>, << "b" >>,
    << " ", "b", " " >>, << "a", " ", "b" >> }

\* The number of white-space characters at the start of a text.
RECURSIVE Leading(_, _)
Leading(text, k) ==
  IF k <= Len(text) /\ text[k] = " " THEN Leading(text, k + 1) ELSE k - 1

RECURSIVE Trailing(_, _)
Trailing(text, k) ==
  IF k >= 1 /\ text[k] = " " THEN Trailing(text, k - 1) ELSE Len(text) - k

\* String.prototype.trim.
trim(text) ==
  IF Leading(text, 1) = Len(text) THEN << >>
  ELSE SubSeq(text, Leading(text, 1) + 1, Len(text) - Trailing(text, Len(text)))

\* addGroup comparing the text as typed and storing it trimmed.
addGroupUntrimmed(c, newGroupName) ==
  LET name == trim(newGroupName)
  IN IF name = << >> \/ \E k \in 1..Len(c.groups) : c.groups[k].name = newGroupName
     THEN c
     ELSE [ c EXCEPT !.groups = Append(c.groups, [ id |-> c.groupClock, name |-> name,
                                                  color |-> c.selectedColor ]),
                     !.groupClock = c.groupClock + 1 ]

\* addGroup, lines 636-645, with newGroupName as typed.
addGroup(c, newGroupName) ==
  LET name == trim(newGroupName)
  IN IF name = << >> \/ \E k \in 1..Len(c.groups) : c.groups[k].name = name
     THEN c
     ELSE [ c EXCEPT !.groups = Append(c.groups, [ id |-> c.groupClock, name |-> name,
                                                  color |-> c.selectedColor ]),
                     !.groupClock = c.groupClock + 1 ]

\* commitGroupName, lines 651-663, with editingNames[groupId] as typed.
commitGroupName(c, groupId, typed) ==
  LET name == trim(typed)
      rename(g) == IF g.id = groupId THEN [ g EXCEPT !.name = name ] ELSE g
  IN IF ~\E k \in 1..Len(c.groups) : c.groups[k].id = groupId THEN c
     ELSE IF name = << >>
             \/ \E k \in 1..Len(c.groups) : c.groups[k].name = name /\ c.groups[k].id # groupId
          THEN c
          ELSE [ c EXCEPT !.groups = [ k \in 1..Len(c.groups) |-> rename(c.groups[k]) ] ]

AddGroupTyped(typed) ==
  /\ Spend("group")
  /\ Set(addGroup(Cur, typed))
  /\ Quiet
  /\ UNCHANGED << hoverVars, otherVars >>

CommitGroupName(groupId, typed) ==
  /\ Spend("edit")
  /\ Set(commitGroupName(Cur, groupId, typed))
  /\ Quiet
  /\ UNCHANGED << hoverVars, otherVars >>

MaxNamings == 3

Naming ==
  [ NoBudget EXCEPT !.group = MaxNamings, !.edit = 2, !.load = 1, !.commit = 1, !.reset = 1,
                    !.travel = 1, !.ops = MaxNamings + 3 ]

InitNames == InitApp(Naming) /\ rc = IdleRc /\ IdleHarness

NextNames ==
  \/ \E typed \in NameInputs : AddGroupTyped(typed)
  \/ \E groupId \in GroupIds \cup { 0 }, typed \in NameInputs : CommitGroupName(groupId, typed)
  \/ \E groupId \in GroupIds, color \in Colors : CommitGroupColor(groupId, color)
  \/ \E img \in RawImages : ImageOnload(img)
  \/ Reset

SpecNames == InitNames /\ [][NextNames]_vars

\* No two groups of a list have the same name, and no name is empty.
UniqueNames(groupList) ==
  /\ \A j, k \in 1..Len(groupList) : j # k => groupList[j].name # groupList[k].name
  /\ \A k \in 1..Len(groupList) : groupList[k].name # << >>

\* A name that is empty, or that a group other than `groupId` has.
Taken(groupList, groupId, typed) ==
  \/ trim(typed) = << >>
  \/ \E k \in 1..Len(groupList) : groupList[k].name = trim(typed) /\ groupList[k].id # groupId

\* C28: after every step the group names are pairwise different; addGroup with an
\* empty or taken name and commitGroupName with an empty name or another group's
\* name leave the groups as they were.
C28_UniqueNames ==
  [][/\ UniqueNames(groups')
     /\ \A typed \in NameInputs :
          (AddGroupTyped(typed) /\ Taken(groups, 0, typed)) => groups' = groups
     /\ \A groupId \in GroupIds, typed \in NameInputs :
          (CommitGroupName(groupId, typed) /\ Taken(groups, groupId, typed))
             => groups' = groups]_vars

\* Two groups stand, one of them renamed, after three addGroup calls of which one
\* was refused and two commitGroupName calls.
C28_Witness ==
  /\ Len(groups) = 2
  /\ budget = [ Naming EXCEPT !.group = 0, !.edit = 0, !.ops = Naming.ops - MaxNamings - 2 ]
  /\ \E k \in 1..Len(groups) : groups[k].name = << "a", " ", "b" >>

-----------------------------------------------------------------------------
(* The box prompt *)

\* The box-mode button, line 806.
ToggleBoxMode ==
  /\ Spend("box")
  /\ isBoxMode' = ~isBoxMode
  /\ Set(Cur)
  /\ Quiet
  /\ UNCHANGED << hoverVars, harnessVars, boxStart, box, mouseUps >>

\* handleMouseDown in box mode, lines 453-486: the box starts at the pointer and a
\* mouseup listener is added to the window; it holds the points of this render.
\* A button is pressed again only after it was released.
HandleMouseDownBox(click) ==
  /\ Spend("click")
  /\ ~(~sam \/ isProcessing)
  /\ isBoxMode
  /\ mouseUps = << >>
  /\ hoverTimer' = ResetHover(hoverTimer)
  /\ hoverCalls' = Dismissed(hoverCalls)
  /\ boxStart' = << [ x |-> click.x, y |-> click.y ] >>
  /\ box' = << [ x1 |-> click.x, y1 |-> click.y, x2 |-> click.x, y2 |-> click.y ] >>
  /\ mouseUps' = << [ x |-> click.x, y |-> click.y, points |-> points ] >>
  /\ Set(Render([ Cur EXCEPT !.canvas = drawCanvas(Cur, CurrentCandidate(Cur)) ]))
  /\ Quiet
  /\ UNCHANGED << clock, lastMove, harnessVars, isBoxMode >>

\* handleMouseMove while a box is dragged, lines 321-330.
HandleMouseMoveBox(p) ==
  /\ Spend("move")
  /\ sam /\ boxStart # Null
  /\ lastMove' = clock
  /\ box' = << [ x1 |-> boxStart[1].x, y1 |-> boxStart[1].y, x2 |-> p.x, y2 |-> p.y ] >>
  /\ Set([ Cur EXCEPT !.canvas = drawCanvas(Cur, CurrentCandidate(Cur)) ])
  /\ Quiet
  /\ UNCHANGED << hoverTimer, hoverCalls, clock, harnessVars, isBoxMode, boxStart, mouseUps >>

\* The listener `up`, lines 473-483, with generateCandidates(points) up to its
\* await: the request carries the points of the listener's render and nothing of
\* the box.
MouseUp(p) ==
  /\ Len(mouseUps) > 0
  /\ LET up == mouseUps[1]
     IN /\ box' = << [ x1 |-> up.x, y1 |-> up.y, x2 |-> p.x, y2 |-> p.y ] >>
        /\ boxStart' = Null
        /\ mouseUps' = Tail(mouseUps)
        /\ Set(Render([ Cur EXCEPT
                 !.isProcessing = TRUE,
                 !.status = "Generating mask...",
                 !.maskRequests = Append(maskRequests,
                                         [ points |-> up.points, embedding |-> samEmbedding,
                                           from |-> "box" ]) ]))
  /\ Quiet
  /\ UNCHANGED << budget, hoverVars, harnessVars, isBoxMode >>

MaxBoxOps == 6

Boxing ==
  [ NoBudget EXCEPT !.load = 1, !.box = 1, !.click = 2, !.move = 1, !.select = 1,
                    !.ops = MaxBoxOps ]

InitBox == InitApp(Boxing) /\ rc = IdleRc /\ IdleHarness

NextBox ==
  \/ \E img \in RawImages : ImageOnload(img)
  \/ \E k \in 1..Len(pending) : SamInitDone(k, TRUE)
  \/ \E k \in 1..Len(pending) : EmbeddingDone(k, TRUE)
  \/ TimerFire
  \/ ToggleBoxMode
  \/ \E click \in ClickInputs : HandleMouseDown(click)
  \/ \E click \in ClickInputs : HandleMouseDownBox(click)
  \/ \E p \in MoveInputs : HandleMouseMoveBox(p)
  \/ \E p \in ClickInputs : MouseUp(p)
  \/ \E k \in 1..Len(maskRequests), ok \in BOOLEAN, masks \in CandidateLists :
       MaskRequestDone(k, ok, masks)
  \/ ClearSelections

SpecBox == InitBox /\ [][NextBox]_vars

\* The k-th mask request, made by a completed box on the image whose embedding the
\* engine holds, is answered in this step.
BoxSettled(k) ==
  /\ maskRequests' = RemoveAt(maskRequests, k)
  /\ maskRequests[k].from = "box"
  /\ originalImageData # Null
  /\ maskRequests[k].embedding = originalImageData

\* C31: the request of a completed box on a ready image ends with candidate masks
\* and not in a failure, whether or not a point had been placed.
C31_BoxGivesCandidates ==
  [][\A k \in 1..Len(maskRequests) :
       BoxSettled(k) => /\ status' # "Failed to generate mask"
                        /\ Len(candidateMasks') > 0]_vars

\* With a point placed before the box is drawn the request is answered, from the
\* points alone.
C31_BoxWithPoints ==
  [][\A k \in 1..Len(maskRequests) :
       (BoxSettled(k) /\ Len(maskRequests[k].points) > 0)
          => /\ status' # "Failed to generate mask"
             /\ Len(candidateMasks') > 0]_vars

-----------------------------------------------------------------------------
(* The base image, the history and the surfaces *)

\* C32: once process() has stored a base image, the base image is, byte for byte, the
\* image of the history entry at the cursor.
C32_BaseIsCursorEntry ==
  baseImageData # Null =>
    /\ currentHistoryIndex \in 0..(Len(history) - 1)
    /\ baseImageData = history[currentHistoryIndex + 1].imageData

\* An undo has brought back an earlier entry of a history that holds a painted image.
C32_Witness ==
  /\ lastOp = "undo"
  /\ Len(history) > 1
  /\ currentHistoryIndex < Len(history) - 1
  /\ baseImageData = history[currentHistoryIndex + 1].imageData
  /\ baseImageData # history[currentHistoryIndex + 2].imageData


\* The handlers that edit the surfaces.
SurfaceEdits == { "apply", "toggle", "remove", "assign", "commit" }

\* C33: after every surface edit the base image is the image that re-applying the
\* enabled surfaces in creation order over the pristine image gives.
C33_EditIsRebuild ==
  (lastOp \in SurfaceEdits /\ originalImageData # Null /\ baseImageData # Null)
    => baseImageData = reapplyWalls(Cur, walls)

-----------------------------------------------------------------------------
(* Surfaces edited after an undo *)

MaxRewindOps == 8

Rewinding ==
  [ NoBudget EXCEPT !.load = 1, !.click = 1, !.apply = 2, !.edit = 1, !.group = 1,
                    !.commit = 1, !.undo = 2, !.redo = 1, !.travel = 3,
                    !.ops = MaxRewindOps ]

InitRewind == InitApp(Rewinding) /\ rc = IdleRc /\ IdleHarness

NextRewind ==
  \/ \E img \in { ImageA } : ImageOnload(img)
  \/ \E k \in 1..Len(pending) : SamInitDone(k, TRUE)
  \/ \E k \in 1..Len(pending) : EmbeddingDone(k, TRUE)
  \/ TimerFire
  \/ \E click \in { p \in ClickInputs : p.label = 1 } : HandleMouseDown(click)
  \/ \E k \in 1..Len(maskRequests), masks \in CandidateLists : MaskRequestDone(k, TRUE, masks)
  \/ ApplyCandidate
  \/ \E id \in WallIds : ToggleWall(id)
  \/ \E id \in WallIds : RemoveWall(id)
  \/ \E name \in GroupNames : AddGroup(name)
  \/ \E groupId \in GroupIds, color \in Colors : CommitGroupColor(groupId, color)
  \/ Undo
  \/ Redo

SpecRewind == InitRewind /\ [][NextRewind]_vars

\* The handlers that rebuild the image from the surface collection.
Rebuilders == { "toggle", "remove", "commit" }

\* An undo has restored the first snapshot of the history, which is the pristine
\* image: the creation of every surface has been undone.
AllUndone ==
  /\ lastOp = "undo"
  /\ originalImageData # Null
  /\ currentHistoryIndex = 0
  /\ Len(history) < HISTORY_LIMIT
  /\ baseImageData = originalImageData

\* C34: undo keeps the surfaces consistent with the snapshot it restores: once the
\* creation of every surface has been undone, a toggle, a remove or a group colour
\* commit made next leaves the image without any recolouring.
C34_UndoneStaysOut ==
  [][ (AllUndone /\ lastOp' \in Rebuilders) => baseImageData' = originalImageData ]_vars

-----------------------------------------------------------------------------
(* Surfaces and groups under the colour picker *)

MaxPickerOps == 8

Picking ==
  [ NoBudget EXCEPT !.load = 2, !.click = 1, !.apply = 2, !.group = 4, !.commit = 1,
                    !.edit = 1, !.reset = 1, !.travel = 1, !.ops = MaxPickerOps ]

InitPicker == InitApp(Picking) /\ rc = IdleRc /\ IdleHarness

NextPicker ==
  \/ \E img \in { ImageA } : ImageOnload(img)
  \/ \E k \in 1..Len(pending) : SamInitDone(k, TRUE)
  \/ \E k \in 1..Len(pending) : EmbeddingDone(k, TRUE)
  \/ TimerFire
  \/ \E click \in { p \in ClickInputs : p.label = 1 } : HandleMouseDown(click)
  \/ \E k \in 1..Len(maskRequests) : MaskRequestDone(k, TRUE, << DenseMask(LowHalf) >>)
  \/ ApplyCandidate
  \/ \E id \in WallIds : RemoveWall(id)
  \/ \E name \in GroupNames : AddGroup(name)
  \/ \E wallId \in WallIds, groupId \in GroupIds \cup { 0 } : AssignWallToGroup(wallId, groupId)
  \/ \E groupId \in GroupIds, color \in Colors : PreviewGroupColor(groupId, color)
  \/ \E groupId \in GroupIds, color \in Colors : CommitGroupColor(groupId, color)
  \/ Reset

SpecPicker == InitPicker /\ [][NextPicker]_vars

\* C35: every surface that belongs to a group has the stored colour of that group.
C35_GroupColourShared ==
  \A k \in 1..Len(walls), g \in 1..Len(groups) :
    walls[k].groupId = groups[g].id => walls[k].color = groups[g].color

\* Every handler other than previewGroupColor keeps it.
C35_SharedWhenCommitted ==
  [][ ~(\E groupId \in GroupIds, color \in Colors : PreviewGroupColor(groupId, color))
        => (C35_GroupColourShared => C35_GroupColourShared') ]_vars

\* C36: the groupId of every surface is null (0 here) or the id of a group of the
\* group collection.
C36_GroupIdResolves ==
  \A k \in 1..Len(walls) : walls[k].groupId = 0 \/ walls[k].groupId \in GroupIds

\* A surface has been removed while another one stays in one of two groups.
C36_Witness ==
  /\ lastOp = "remove"
  /\ Len(groups) = 2
  /\ \E k \in 1..Len(walls) : walls[k].groupId = groups[2].id

-----------------------------------------------------------------------------
(* A process() run whose embedding generation fails, and runs that overlap *)

\* The step in which process() resumes from a rejected sam.generateEmbedding.
EmbeddingFailed == \E k \in 1..Len(pending) : EmbeddingDone(k, FALSE)

\* When embedding generation fails, the status left at the end of process() is not
\* 'Ready'.
C37_FailureReported == [][ EmbeddingFailed => status' # "Ready" ]_vars

\* When embedding generation fails and no other run is pending, the engine is left
\* without an embedding of an image other than the current one, so that no later
\* click is decoded against a previous image.
C37_NoStaleEmbedding ==
  [][ (EmbeddingFailed /\ Len(pending) = 1)
        => (samEmbedding' = Null \/ samEmbedding' = originalImageData') ]_vars

\* C37: a failed embedding generation leaves a failure status and no embedding of
\* a previously loaded image for later clicks.
C37_FailureHandled == C37_FailureReported /\ C37_NoStaleEmbedding

MaxOverlapOps == 4

Reloading ==
  [ NoBudget EXCEPT !.load = 2, !.balance = 2, !.props = 2, !.ops = MaxOverlapOps ]

InitOverlap == InitApp(Reloading) /\ rc = IdleRc /\ IdleHarness

NextOverlap ==
  \/ \E img \in RawImages : ImageOnload(img)
  \/ \E wb \in WhiteBalances : SetWhiteBalance(wb)
  \/ \E k \in 1..Len(pending) : SamInitDone(k, TRUE)
  \/ \E k \in 1..Len(pending) : EmbeddingDone(k, TRUE)
  \/ TimerFire

SpecOverlap == InitOverlap /\ [][NextOverlap]_vars

\* The image the latest process() run works on.
LatestBalanced == applyWhiteBalance(rawImageData, whiteBalance)

\* What process() stores before its await is that of the latest run.
CommittedLatest ==
  /\ originalImageData = LatestBalanced
  /\ baseImageData = LatestBalanced
  /\ Len(history) = 1 /\ history[1].imageData = LatestBalanced /\ currentHistoryIndex = 0
  /\ retinexRef = << RetinexOf(LatestBalanced) >>

\* C38: once every process() run has finished, the pristine image, the base image,
\* the history, the illumination model and the engine's embedding are those of the
\* latest white-balanced image.
C38_LatestEverywhere ==
  (rawImageData # Null /\ pending = << >>)
    => (CommittedLatest /\ samEmbedding = LatestBalanced)

\* The part of it that does not depend on the order of the encoder runs: at every
\* moment after an upload, also while runs are pending.
C38_CommittedLatest == rawImageData # Null => CommittedLatest
====
